---- MODULE Spec2Model ----
(***************************************************************************)
(* A model of the PSL compiler of src/unnamed/part_007: the tokenizer        *)
(* (PSLTokenizer), the recursive-descent parser (PSLParser), the identifier *)
(* allocation and page markup of the code generator (PSLCompiler) and the   *)
(* page-switching part of the emitted document's runtime.                   *)
(*                                                                         *)
(* Characters are one-character strings, a source text is a sequence of     *)
(* characters, and cursors are 0-based as in the JavaScript source, so the  *)
(* character at cursor p of inp is inp[p + 1].                              *)
(***************************************************************************)
EXTENDS Integers, Sequences, FiniteSets, TLC

VARIABLES
  linput,    \* PSLTokenizer.input
  lpos,      \* PSLTokenizer.pos
  ltokens,   \* PSLTokenizer.tokens
  lpc,       \* position of tokenize(): "idle", "loop" or "done"
  ptokens,   \* PSLParser.tokens
  ppos,      \* PSLParser.pos
  past,      \* PSLParser.ast, the Program parse() is building
  pstat,     \* position of parse(): "idle", "run" (in its loop), "returned", "threw"
             \* (the Error of expect), "typeerror" (a call of a method that does not
             \* exist) or "hung" (in a loop that does not end)
  perr,      \* what the message of the Error of expect says
  cast,      \* PSLCompiler.ast
  cid,       \* PSLCompiler.elementId
  cstack,    \* the nodes generatePages() and generateElement() have yet to visit
  cout,      \* the tags with an identifier or a page name of the document that the
             \* running compile() has produced, in document order
  cids,      \* the identifiers the running compile() has allocated, in allocation order
  cbase,     \* elementId when the running compile() was called
  cfirst,    \* the document the first compile() of this object returned
  cruns,     \* number of calls of compile() on this object
  cstat,     \* position of the compiler: "idle", "new" (constructed), "run", "done"
  rast,      \* the Program the document was compiled from
  rdoc,      \* the page containers of the document in the browser
  rlast,     \* the kind of the last statement the document ran
  rstat,     \* position of the document: "idle" or "run" (loaded)
  ssrc,      \* the source text of the body of the element generateElement() writes
  sprops,    \* el.props of that element
  spadding,  \* pagePadding
  snext,     \* number of entries of el.props the second loop has passed
  shtml,     \* the attributes added to the tag, in order
  sstyles,   \* the array styles
  svar,      \* elementVarName, <<>> for null
  swrapper,  \* wrapperStyles, the declarations of the wrapper; <<>> for no wrapper
  sstat,      \* position of generateElement(): "idle", "loop" or "done"
  east,     \* the Program whose callbacks are emitted (callback emission)
  equeue,   \* the callbacks still to emit, in the order of emission
  eout,     \* the callbacks emitted so far
  estat,     \* idle, run or returned
  dast,     \* the Program of the loaded document (document runtime)
  dload,    \* the scripts of the document still to run, in document order
  dnodes,   \* the nodes of the document: page, element, if and else containers
  dreg,     \* window.psl_elements
  dvars,    \* window.psl_vars
  dwatchers,  \* window.psl_watchers
  dtexts,   \* the reactive text placeholders and their text
  dstack,   \* the calls in progress, the innermost first
  dlog,     \* what has run so far: events, assignments, watcher calls, refreshes, console output
  devents,  \* number of events handled
  dsuspended,  \* the callback invocations suspended at an await, the oldest first
  dcurrent,  \* the invocation that runs, or ran last: the number of its event
  dstat,     \* idle, load or ready
  tloop,    \* the ForLoop node generateForLoop() is called with (for-loop template)
  tnext,    \* number of elements of forLoop.elements mapped so far
  tmodified,  \* the elements replaceLoopVariable() returned, in order
  tspans,   \* the data-var names of the placeholders of templateHTML so far
  tstat,     \* idle, map or done
  vvalue,   \* the value node valueToJSString() is called with (emission of values)
  vuse,     \* where the value stands: value (of a global variable), every or wait (a duration)
  vtext,    \* the text valueToJSString() returned
  vresult,  \* what the text is to the JavaScript engine: a literal and its value, or a SyntaxError
  vstat     \* idle, new, emitted or evaluated

lexVars == <<linput, lpos, ltokens, lpc>>
parVars == <<ptokens, ppos, past, pstat, perr>>
cmpVars == <<cast, cid, cstack, cout, cids, cbase, cfirst, cruns, cstat>>
runVars == <<rast, rdoc, rlast, rstat>>
styVars == <<ssrc, sprops, spadding, snext, shtml, sstyles, svar, swrapper, sstat>>
emtVars == <<east, equeue, eout, estat>>
docVars == <<dast, dload, dnodes, dreg, dvars, dwatchers, dtexts, dstack, dlog, devents,
            dsuspended, dcurrent, dstat>>
tplVars == <<tloop, tnext, tmodified, tspans, tstat>>
valVars == <<vvalue, vuse, vtext, vresult, vstat>>

vars == <<lexVars, parVars, cmpVars, runVars, styVars, emtVars, docVars, tplVars, valVars>>

\* the components a specification does not run stay as they are before construction
LexIdle == linput = <<>> /\ lpos = 0 /\ ltokens = <<>> /\ lpc = "idle"
ParIdle == ptokens = <<>> /\ ppos = 0 /\ past = <<>> /\ pstat = "idle" /\ perr = <<>>

CmpIdle ==
  /\ cast = <<>> /\ cid = 0 /\ cstack = <<>> /\ cout = <<>> /\ cids = <<>>
  /\ cbase = 0 /\ cfirst = <<>> /\ cruns = 0 /\ cstat = "idle"
RunIdle == rast = <<>> /\ rdoc = <<>> /\ rlast = "" /\ rstat = "idle"
StyIdle ==
  /\ ssrc = <<>> /\ sprops = <<>> /\ spadding = <<>> /\ snext = 0 /\ shtml = <<>>
  /\ sstyles = <<>> /\ svar = <<>> /\ swrapper = <<>> /\ sstat = "idle"
EmtIdle == east = <<>> /\ equeue = <<>> /\ eout = <<>> /\ estat = "idle"
DocIdle == dast = <<>> /\ dload = <<>> /\ dnodes = <<>> /\ dreg = <<>> /\ dvars = <<>> /\ dwatchers = <<>> /\ dtexts = <<>> /\ dstack = <<>> /\ dlog = <<>> /\ devents = 0 /\ dsuspended = <<>> /\ dcurrent = 0 /\ dstat = "idle"
TplIdle == tloop = <<>> /\ tnext = 0 /\ tmodified = <<>> /\ tspans = <<>> /\ tstat = "idle"
ValIdle == vvalue = <<>> /\ vuse = "" /\ vtext = <<>> /\ vresult = <<>> /\ vstat = "idle"

notLex == <<parVars, cmpVars, runVars, styVars, emtVars, docVars, tplVars, valVars>>
NotLexIdle == ParIdle /\ CmpIdle /\ RunIdle /\ StyIdle /\ EmtIdle /\ DocIdle /\ TplIdle /\ ValIdle
notPar == <<lexVars, cmpVars, runVars, styVars, emtVars, docVars, tplVars, valVars>>
NotParIdle == LexIdle /\ CmpIdle /\ RunIdle /\ StyIdle /\ EmtIdle /\ DocIdle /\ TplIdle /\ ValIdle
notCmp == <<lexVars, parVars, runVars, styVars, emtVars, docVars, tplVars, valVars>>
NotCmpIdle == LexIdle /\ ParIdle /\ RunIdle /\ StyIdle /\ EmtIdle /\ DocIdle /\ TplIdle /\ ValIdle
notRun == <<lexVars, parVars, cmpVars, styVars, emtVars, docVars, tplVars, valVars>>
NotRunIdle == LexIdle /\ ParIdle /\ CmpIdle /\ StyIdle /\ EmtIdle /\ DocIdle /\ TplIdle /\ ValIdle
notSty == <<lexVars, parVars, cmpVars, runVars, emtVars, docVars, tplVars, valVars>>
NotStyIdle == LexIdle /\ ParIdle /\ CmpIdle /\ RunIdle /\ EmtIdle /\ DocIdle /\ TplIdle /\ ValIdle
notEmt == <<lexVars, parVars, cmpVars, runVars, styVars, docVars, tplVars, valVars>>
NotEmtIdle == LexIdle /\ ParIdle /\ CmpIdle /\ RunIdle /\ StyIdle /\ DocIdle /\ TplIdle /\ ValIdle
notDoc == <<lexVars, parVars, cmpVars, runVars, styVars, emtVars, tplVars, valVars>>
NotDocIdle == LexIdle /\ ParIdle /\ CmpIdle /\ RunIdle /\ StyIdle /\ EmtIdle /\ TplIdle /\ ValIdle
notTpl == <<lexVars, parVars, cmpVars, runVars, styVars, emtVars, docVars, valVars>>
NotTplIdle == LexIdle /\ ParIdle /\ CmpIdle /\ RunIdle /\ StyIdle /\ EmtIdle /\ DocIdle /\ ValIdle
notVal == <<lexVars, parVars, cmpVars, runVars, styVars, emtVars, docVars, tplVars>>
NotValIdle == LexIdle /\ ParIdle /\ CmpIdle /\ RunIdle /\ StyIdle /\ EmtIdle /\ DocIdle /\ TplIdle

(***************************************************************************)
(* Bounds of the model.                                                     *)
(***************************************************************************)
\* longest source text of the exhaustive tokenizer inputs
MaxInput == 3
\* longest total of the texts around and inside a comment (comment inputs)
MaxAround == 3
\* most tokens after the tokens of a context (parser inputs)
MaxTokens == 3
\* most calls of compile() on one PSLCompiler
MaxCompiles == 2
\* longest text of a number token (style inputs)
MaxNumber == 4
\* the operators of an expression are at most
MaxOperators == 3
\* most events a loaded document handles
MaxEvents == 2
\* most calls in progress at which a watcher is still called
MaxDepth == 5

(***************************************************************************)
(* Characters.                                                              *)
(***************************************************************************)
LowerSeq == <<"a","b","c","d","e","f","g","h","i","j","k","l","m",
              "n","o","p","q","r","s","t","u","v","w","x","y","z">>
UpperSeq == <<"A","B","C","D","E","F","G","H","I","J","K","L","M",
              "N","O","P","Q","R","S","T","U","V","W","X","Y","Z">>
Range(s) == {s[i] : i \in DOMAIN s}
LowerLetters == Range(LowerSeq)
UpperLetters == Range(UpperSeq)
Digits == {"0","1","2","3","4","5","6","7","8","9"}
\* /\s/
Whitespace == {" ", "\n", "\t", "\r"}
\* /[a-zA-Z_]/
IdentStart == LowerLetters \cup UpperLetters \cup {"_"}
\* /[a-zA-Z0-9_]/
IdentChars == IdentStart \cup Digits
\* /[\d.]/
NumberChars == Digits \cup {"."}
\* /[a-zA-Z%]/
UnitChars == LowerLetters \cup UpperLetters \cup {"%"}
\* '{}()[];:,=.<>+-*/%?!'
SymbolChars == {"{","}","(",")","[","]",";",":",",","=",".","<",">","+","-","*","/","%","?","!"}
\* the text JavaScript appends for `value += undefined`
UndefinedText == <<"u","n","d","e","f","i","n","e","d">>

\* String.prototype.toLowerCase, on one character and on a text
toLowerChar(c) ==
  IF c \in UpperLetters
    THEN LowerSeq[CHOOSE i \in DOMAIN UpperSeq : UpperSeq[i] = c]
    ELSE c
toLowerCase(s) == [i \in DOMAIN s |-> toLowerChar(s[i])]

\* all texts over alphabet A of length at most n
Texts(A, n) == UNION {[1..k -> A] : k \in 0..n}

(***************************************************************************)
(* PSLTokenizer                                                             *)
(***************************************************************************)
Tok(t, v) == [type |-> t, value |-> v]
EOFToken == Tok("EOF", <<>>)

\* input.substr(pos, str.length) === str
match(inp, pos, str) ==
  /\ pos + Len(str) <= Len(inp)
  /\ SubSeq(inp, pos + 1, pos + Len(str)) = str

\* the loop `while (pos < input.length && <class>.test(input[pos])) pos++`
RECURSIVE ScanWhile(_, _, _)
ScanWhile(inp, pos, class) ==
  IF pos < Len(inp) /\ inp[pos + 1] \in class
    THEN ScanWhile(inp, pos + 1, class)
    ELSE pos

skipWhitespace(inp, pos) == ScanWhile(inp, pos, Whitespace)

RECURSIVE skipLineComment(_, _)
skipLineComment(inp, pos) ==
  IF pos < Len(inp) /\ inp[pos + 1] # "\n"
    THEN skipLineComment(inp, pos + 1)
    ELSE pos

\* the loop of skipBlockComment stepping over one character of the closing `*/` only
RECURSIVE BlockCommentLoop_ShortClose(_, _)
BlockCommentLoop_ShortClose(inp, pos) ==
  IF pos < Len(inp) - 1
    THEN IF inp[pos + 1] = "*" /\ inp[pos + 2] = "/"
           THEN pos + 1
           ELSE BlockCommentLoop_ShortClose(inp, pos + 1)
    ELSE pos

\* the loop of skipBlockComment, entered after `this.pos += 2`
RECURSIVE BlockCommentLoop(_, _)
BlockCommentLoop(inp, pos) ==
  IF pos < Len(inp) - 1
    THEN IF inp[pos + 1] = "*" /\ inp[pos + 2] = "/"
           THEN pos + 2
           ELSE BlockCommentLoop(inp, pos + 1)
    ELSE pos

skipBlockComment(inp, pos) == BlockCommentLoop(inp, pos + 2)

readIdentifier(inp, pos) ==
  LET end == ScanWhile(inp, pos, IdentChars)
  IN  [pos |-> end, tok |-> Tok("IDENTIFIER", SubSeq(inp, pos + 1, end))]

validUnits ==
  { <<"p","x">>, <<"v","w">>, <<"v","h">>, <<"%">>, <<"e","m">>, <<"r","e","m">>,
    <<"v","m","i","n">>, <<"v","m","a","x">>, <<"c","m">>, <<"m","m">>, <<"i","n">>,
    <<"p","t">>, <<"p","c">>, <<"s">>, <<"m","s">> }

\* readNumber without `this.pos = unitStart`
readNumber_NoBacktrack(inp, pos) ==
  LET unitStart == ScanWhile(inp, pos, NumberChars)
      unitEnd   == ScanWhile(inp, unitStart, UnitChars)
      value     == SubSeq(inp, pos + 1, unitStart)
      unit      == SubSeq(inp, unitStart + 1, unitEnd)
  IN  IF toLowerCase(unit) \in validUnits \/ unit = <<"%">>
        THEN [pos |-> unitEnd, tok |-> Tok("NUMBER", value \o unit)]
        ELSE [pos |-> unitEnd, tok |-> Tok("NUMBER", value)]

readNumber(inp, pos) ==
  LET unitStart == ScanWhile(inp, pos, NumberChars)
      unitEnd   == ScanWhile(inp, unitStart, UnitChars)
      value     == SubSeq(inp, pos + 1, unitStart)
      unit      == SubSeq(inp, unitStart + 1, unitEnd)
  IN  IF toLowerCase(unit) \in validUnits \/ unit = <<"%">>
        THEN [pos |-> unitEnd, tok |-> Tok("NUMBER", value \o unit)]
        ELSE [pos |-> unitStart, tok |-> Tok("NUMBER", value)]

\* the loop of readString: [pos, value] when it is left
RECURSIVE StringLoop(_, _, _, _)
StringLoop(inp, pos, quote, value) ==
  IF pos < Len(inp) /\ inp[pos + 1] # quote
    THEN IF inp[pos + 1] = "\\"
           THEN LET escaped == IF pos + 1 < Len(inp) THEN <<inp[pos + 2]>> ELSE UndefinedText
                    text == IF escaped = <<"n">> THEN <<"\n">>
                            ELSE IF escaped = <<"t">> THEN <<"\t">>
                            ELSE escaped
                IN  StringLoop(inp, pos + 2, quote, value \o text)
           ELSE StringLoop(inp, pos + 1, quote, value \o <<inp[pos + 1]>>)
    ELSE [pos |-> pos, value |-> value]

readString(inp, pos) ==
  LET r == StringLoop(inp, pos + 1, inp[pos + 1], <<>>)
  IN  [pos |-> r.pos + 1, tok |-> Tok("STRING", r.value)]

TwoCharOperators == { <<"=","=">>, <<"!","=">>, <<">","=">>, <<"<","=">> }

\* which branch one iteration of tokenize's loop takes at cursor p, the cursor
\* after skipWhitespace
Branch(inp, p) ==
  IF p >= Len(inp) THEN "break"
  ELSE IF match(inp, p, <<"/","/">>) THEN "lineComment"
  ELSE IF match(inp, p, <<"/","*">>) THEN "blockComment"
  ELSE IF \E op \in TwoCharOperators : match(inp, p, op) THEN "operator"
  ELSE IF inp[p + 1] = "#" THEN "hash"
  ELSE IF inp[p + 1] = "@" THEN "at"
  ELSE IF inp[p + 1] \in IdentStart THEN "identifier"
  ELSE IF inp[p + 1] \in Digits THEN "number"
  ELSE IF inp[p + 1] \in {"\"", "'"} THEN "string"
  ELSE IF inp[p + 1] \in SymbolChars THEN "symbol"
  ELSE "drop"

\* tokenizeStep without the `pos++` of the last else branch
tokenizeStep_NoDrop(inp, pos, toks) ==
  LET p == skipWhitespace(inp, pos)
      b == Branch(inp, p)
      one(r) == [pos |-> r.pos, tokens |-> Append(toks, r.tok), more |-> TRUE]
  IN  CASE b = "break"        -> [pos |-> p, tokens |-> toks, more |-> FALSE]
        [] b = "lineComment"  -> [pos |-> skipLineComment(inp, p), tokens |-> toks, more |-> TRUE]
        [] b = "blockComment" -> [pos |-> skipBlockComment(inp, p), tokens |-> toks, more |-> TRUE]
        [] b = "operator"     -> one([pos |-> p + 2, tok |-> Tok("OPERATOR", SubSeq(inp, p + 1, p + 2))])
        [] b = "hash"         -> one([pos |-> p + 1, tok |-> Tok("HASH", <<"#">>)])
        [] b = "at"           -> one([pos |-> p + 1, tok |-> Tok("AT", <<"@">>)])
        [] b = "identifier"   -> one(readIdentifier(inp, p))
        [] b = "number"       -> one(readNumber(inp, p))
        [] b = "string"       -> one(readString(inp, p))
        [] b = "symbol"       -> one([pos |-> p + 1, tok |-> Tok("SYMBOL", <<inp[p + 1]>>)])
        [] OTHER              -> [pos |-> p, tokens |-> toks, more |-> TRUE]

\* one iteration of the loop of tokenize, from cursor pos with tokens toks:
\* the cursor, the tokens and whether the loop goes on
tokenizeStep(inp, pos, toks) ==
  LET p == skipWhitespace(inp, pos)
      b == Branch(inp, p)
      one(r) == [pos |-> r.pos, tokens |-> Append(toks, r.tok), more |-> TRUE]
  IN  CASE b = "break"        -> [pos |-> p, tokens |-> toks, more |-> FALSE]
        [] b = "lineComment"  -> [pos |-> skipLineComment(inp, p), tokens |-> toks, more |-> TRUE]
        [] b = "blockComment" -> [pos |-> skipBlockComment(inp, p), tokens |-> toks, more |-> TRUE]
        [] b = "operator"     -> one([pos |-> p + 2, tok |-> Tok("OPERATOR", SubSeq(inp, p + 1, p + 2))])
        [] b = "hash"         -> one([pos |-> p + 1, tok |-> Tok("HASH", <<"#">>)])
        [] b = "at"           -> one([pos |-> p + 1, tok |-> Tok("AT", <<"@">>)])
        [] b = "identifier"   -> one(readIdentifier(inp, p))
        [] b = "number"       -> one(readNumber(inp, p))
        [] b = "string"       -> one(readString(inp, p))
        [] b = "symbol"       -> one([pos |-> p + 1, tok |-> Tok("SYMBOL", <<inp[p + 1]>>)])
        [] OTHER              -> [pos |-> p + 1, tokens |-> toks, more |-> TRUE]

\* tokenize() run to its end from cursor pos with tokens toks: the returned tokens
RECURSIVE tokenizeFrom(_, _, _)
tokenizeFrom(inp, pos, toks) ==
  IF pos < Len(inp)
    THEN LET r == tokenizeStep(inp, pos, toks)
         IN  IF r.more THEN tokenizeFrom(inp, r.pos, r.tokens)
                       ELSE Append(r.tokens, EOFToken)
    ELSE Append(toks, EOFToken)

tokenize(inp) == tokenizeFrom(inp, 0, <<>>)

(***************************************************************************)
(* The tokenizer as a state machine: one action per branch of the loop of   *)
(* tokenize, and one for leaving the loop.                                  *)
(***************************************************************************)
\* the characters of the exhaustive inputs
LexAlphabet == {"\n", "/", "*", "1", ".", "%", "s", "m", "S", "n", "\"", "\\", "=", "#", "@", "$"}
\* the characters of the inputs built around a comment
CommentAlphabet == {" ", "\n", "/", "*", "x", "1"}

LineComment(body) == <<"/","/">> \o body
BlockComment(body) == <<"/","*">> \o body \o <<"*","/">>

\* a comment between two texts, the three of total length at most MaxAround
CommentInputs ==
  UNION { { pre \o com \o post :
              pre \in [1..n[1] -> CommentAlphabet],
              com \in UNION { {LineComment(b), BlockComment(b)} : b \in [1..n[2] -> CommentAlphabet] },
              post \in [1..n[3] -> CommentAlphabet] } :
          n \in { m \in (0..MaxAround) \X (0..MaxAround) \X (0..MaxAround) :
                    m[1] + m[2] + m[3] <= MaxAround } }

LexInputs == Texts(LexAlphabet, MaxInput) \cup CommentInputs

LexInit ==
  /\ linput \in LexInputs
  /\ lpos = 0
  /\ ltokens = <<>>
  /\ lpc = "loop"
  /\ NotLexIdle

\* the branch the next iteration takes
LexBranch ==
  IF lpos < Len(linput) THEN Branch(linput, skipWhitespace(linput, lpos)) ELSE "break"

\* one iteration of the loop of tokenize
LexIterate ==
  /\ lpc = "loop"
  /\ lpos < Len(linput)
  /\ LET r == tokenizeStep(linput, lpos, ltokens)
     IN  /\ lpos' = r.pos
         /\ ltokens' = r.tokens
  /\ UNCHANGED <<linput, lpc>>
  /\ UNCHANGED notLex

LexLineComment ==
  /\ LexBranch = "lineComment"
  /\ LexIterate

LexBlockComment ==
  /\ LexBranch = "blockComment"
  /\ LexIterate

LexOperator ==
  /\ LexBranch = "operator"
  /\ LexIterate

LexHash ==
  /\ LexBranch = "hash"
  /\ LexIterate

LexAt ==
  /\ LexBranch = "at"
  /\ LexIterate

LexIdentifier ==
  /\ LexBranch = "identifier"
  /\ LexIterate

LexNumber ==
  /\ LexBranch = "number"
  /\ LexIterate

LexString ==
  /\ LexBranch = "string"
  /\ LexIterate

LexSymbol ==
  /\ LexBranch = "symbol"
  /\ LexIterate

LexDrop ==
  /\ LexBranch = "drop"
  /\ LexIterate

\* the loop is left (its condition fails, or the break after skipWhitespace) and
\* the EOF token is pushed
LexFinish ==
  /\ lpc = "loop"
  /\ LexBranch = "break"
  /\ lpos' = (IF lpos < Len(linput) THEN skipWhitespace(linput, lpos) ELSE lpos)
  /\ ltokens' = Append(ltokens, EOFToken)
  /\ lpc' = "done"
  /\ UNCHANGED linput
  /\ UNCHANGED notLex

LexNext ==
  \/ LexLineComment \/ LexBlockComment \/ LexOperator \/ LexHash \/ LexAt
  \/ LexIdentifier \/ LexNumber \/ LexString \/ LexSymbol \/ LexDrop
  \/ LexFinish

SpecLex == LexInit /\ [][LexNext]_vars /\ WF_vars(LexNext)

(***************************************************************************)
(* Claims about the tokenizer.                                              *)
(***************************************************************************)
\* toks ends with an EOF token and holds no other
EndsWithOneEOF(toks) ==
  /\ Len(toks) >= 1
  /\ toks[Len(toks)] = EOFToken
  /\ \A i \in 1..(Len(toks) - 1) : toks[i].type # "EOF"

\* C1: tokenize terminates for every input text and the tokens it returns end
\* with exactly one EOF token, the last element. Termination is stated by its
\* variant: every iteration of the loop moves the cursor forward, and the cursor
\* stays within two characters of the end of the text, where the loop is left
\* (the model has no step that throws: a read past the end of the text gives
\* `undefined`).
C1_TokenizeTotal ==
  /\ lpc = "loop" =>
       /\ lpos < Len(linput) => tokenizeStep(linput, lpos, ltokens).pos > lpos
       /\ lpos <= Len(linput) + 2
       /\ \A i \in 1..Len(ltokens) : ltokens[i].type # "EOF"
  /\ lpc = "done" => EndsWithOneEOF(ltokens)

\* tokenize has returned for a text that ends inside a string, after a backslash
C1_Witness ==
  /\ lpc = "done"
  /\ linput = <<"\"", "s", "\\">>
  /\ ltokens = <<Tok("STRING", <<"s">> \o UndefinedText), EOFToken>>

\* the cursor after the longest run of characters of class that starts at cursor from
MaxRun(inp, from, class) ==
  CHOOSE k \in from..Len(inp) :
    /\ \A i \in (from + 1)..k : inp[i] \in class
    /\ k = Len(inp) \/ inp[k + 1] \notin class

\* the unit suffixes the specification lists
ListedUnits ==
  { <<"p","x">>, <<"v","w">>, <<"v","h">>, <<"%">>, <<"e","m">>, <<"r","e","m">>,
    <<"v","m","i","n">>, <<"v","m","a","x">>, <<"c","m">>, <<"m","m">>, <<"i","n">>,
    <<"p","t">>, <<"p","c">>, <<"s">>, <<"m","s">> }

\* the step that reads a number at cursor p pushes NUMBER with the digits, and
\* with the run of letters and percent signs after them when accepted(run) holds;
\* the cursor is left after what was pushed
NumberStepAs(accepted(_)) ==
  LET p    == skipWhitespace(linput, lpos)
      d    == MaxRun(linput, p, NumberChars)
      u    == MaxRun(linput, d, UnitChars)
      stop == IF accepted(SubSeq(linput, d + 1, u)) THEN u ELSE d
  IN  /\ ltokens' = Append(ltokens, Tok("NUMBER", SubSeq(linput, p + 1, stop)))
      /\ lpos' = stop

\* C3 as stated: the suffix is appended when the run after the digits is exactly
\* one of the listed units, and otherwise the cursor returns to the end of the digits.
C3_UnitSuffixExact ==
  [][(lpc = "loop" /\ LexBranch = "number") =>
       NumberStepAs(LAMBDA run : run \in ListedUnits)]_vars

\* C3 as amended: the run is compared with the listed units without regard to
\* letter case (`10PX` is one NUMBER `10PX`).
C3_UnitSuffixAnyCase ==
  [][(lpc = "loop" /\ LexBranch = "number") =>
       NumberStepAs(LAMBDA run : toLowerCase(run) \in ListedUnits)]_vars

\* a number with an upper-case unit has been read as one token, and one with an
\* unlisted suffix as a number and an identifier
C3_Witness ==
  \/ linput = <<"1", "m", "S">> /\ ltokens = <<Tok("NUMBER", <<"1", "m", "S">>)>>
  \/ linput = <<"1", "s", "n">> /\ ltokens = <<Tok("NUMBER", <<"1">>), Tok("IDENTIFIER", <<"s", "n">>)>>

\* no `*/` starts at or after cursor from
NoCloserFrom(inp, from) ==
  ~\E i \in (from + 1)..(Len(inp) - 1) : inp[i] = "*" /\ inp[i + 1] = "/"

\* C4: when the tokenizer meets a `/*` with no later `*/`, the only token emitted
\* from there on is EOF.
C4_UnterminatedCommentToEnd ==
  (/\ lpc = "loop"
   /\ LexBranch = "blockComment"
   /\ NoCloserFrom(linput, skipWhitespace(linput, lpos) + 2))
  => tokenizeFrom(linput, lpos, ltokens) = Append(ltokens, EOFToken)

\* the cursor at the end of the line of cursor p
LineEnd(inp, p) ==
  CHOOSE k \in p..Len(inp) :
    /\ \A i \in (p + 1)..k : inp[i] # "\n"
    /\ k = Len(inp) \/ inp[k + 1] = "\n"

\* the cursors right after a `*/` that closes the `/*` at cursor p
BlockEnds(inp, p) ==
  { k \in (p + 4)..Len(inp) : inp[k - 1] = "*" /\ inp[k] = "/" }

Least(S) == CHOOSE k \in S : \A j \in S : k <= j

\* inp with the characters from cursor p up to cursor e replaced by one space
SpaceFor(inp, p, e) == SubSeq(inp, 1, p) \o <<" ">> \o SubSeq(inp, e + 1, Len(inp))

NullNode == [type |-> "null"]
NoError == [expectedType |-> "", expectedValue |-> <<>>, gotType |-> "", gotValue |-> <<>>,
            position |-> 0]

Ok(pos, node) == [st |-> "ok", pos |-> pos, node |-> node, err |-> NoError]
Hung(pos) == [st |-> "hung", pos |-> pos, node |-> NullNode, err |-> NoError]
TypeError(pos) == [st |-> "typeerror", pos |-> pos, node |-> NullNode, err |-> NoError]

\* the rest of a function after a call that gave r: F(r), unless r is an exception or a hang
Then(r, F(_)) == IF r.st = "ok" THEN F(r) ELSE r

\* this.tokens[this.pos] || { type: 'EOF', value: '' }
peek(toks, pos) == IF pos < Len(toks) THEN toks[pos + 1] ELSE EOFToken
peekAhead(toks, pos, n) == peek(toks, pos + n)
isAtEnd(toks, pos) == peek(toks, pos).type = "EOF"

\* /\s/.test(value)
HasWhitespace(value) == \E i \in DOMAIN value : value[i] \in Whitespace

\* PSLParser.skipWhitespace: steps over tokens whose value holds a whitespace character
RECURSIVE skipWhitespaceTokens(_, _)
skipWhitespaceTokens(toks, pos) ==
  IF pos < Len(toks) /\ HasWhitespace(toks[pos + 1].value)
    THEN skipWhitespaceTokens(toks, pos + 1)
    ELSE pos

\* expect with the cursor moved before the check
expect_Advancing(toks, pos, type, value) ==
  LET token == peek(toks, pos)
  IN  IF token.type # type \/ (value # <<>> /\ token.value # value)
        THEN [st |-> "threw", pos |-> pos + 1, node |-> NullNode,
              err |-> [expectedType |-> type, expectedValue |-> value,
                       gotType |-> token.type, gotValue |-> token.value, position |-> pos]]
        ELSE Ok(pos + 1, token)

\* expect(type, value): value <<>> stands for no value (null, or the empty text, both falsy)
expect(toks, pos, type, value) ==
  LET token == peek(toks, pos)
  IN  IF token.type # type \/ (value # <<>> /\ token.value # value)
        THEN [st |-> "threw", pos |-> pos, node |-> NullNode,
              err |-> [expectedType |-> type, expectedValue |-> value,
                       gotType |-> token.type, gotValue |-> token.value, position |-> pos]]
        ELSE Ok(pos + 1, token)

\* if (this.peek().value === v) this.pos++
skipIf(toks, pos, v) == IF peek(toks, pos).value = v THEN pos + 1 ELSE pos

colorNames ==
  { <<"r","e","d">>, <<"b","l","u","e">>, <<"g","r","e","e","n">>, <<"y","e","l","l","o","w">>, <<"o","r","a","n","g","e">>, <<"p","u","r","p","l","e">>, <<"p","i","n","k">>, <<"b","r","o","w","n">>,
    <<"b","l","a","c","k">>, <<"w","h","i","t","e">>, <<"g","r","a","y">>, <<"g","r","e","y">>, <<"c","y","a","n">>, <<"m","a","g","e","n","t","a">>, <<"l","i","m","e">>, <<"n","a","v","y">>,
    <<"t","e","a","l">>, <<"a","q","u","a">>, <<"m","a","r","o","o","n">>, <<"o","l","i","v","e">>, <<"s","i","l","v","e","r">>, <<"g","o","l","d">>, <<"v","i","o","l","e","t">>, <<"i","n","d","i","g","o">>,
    <<"c","o","r","a","l">>, <<"s","a","l","m","o","n">>, <<"k","h","a","k","i">>, <<"c","r","i","m","s","o","n">>, <<"a","z","u","r","e">>, <<"b","e","i","g","e">>, <<"t","a","n">>, <<"i","v","o","r","y">>,
    <<"t","u","r","q","u","o","i","s","e">>, <<"p","l","u","m">>, <<"o","r","c","h","i","d">>, <<"l","a","v","e","n","d","e","r">>, <<"m","i","n","t">>, <<"p","e","a","c","h">>, <<"c","h","o","c","o","l","a","t","e">>,
    <<"t","o","m","a","t","o">>, <<"w","h","e","a","t">>, <<"s","n","o","w">>, <<"s","e","a","s","h","e","l","l">>, <<"l","i","n","e","n">>, <<"h","o","n","e","y","d","e","w">>, <<"a","l","i","c","e","b","l","u","e">>,
    <<"l","i","g","h","t","b","l","u","e">>, <<"d","a","r","k","b","l","u","e">>, <<"l","i","g","h","t","g","r","e","e","n">>, <<"d","a","r","k","g","r","e","e","n">>, <<"l","i","g","h","t","g","r","a","y">>, <<"d","a","r","k","g","r","a","y">>,
    <<"l","i","g","h","t","g","r","e","y">>, <<"d","a","r","k","g","r","e","y">>, <<"l","i","g","h","t","y","e","l","l","o","w">>, <<"d","a","r","k","y","e","l","l","o","w">>, <<"l","i","g","h","t","p","i","n","k">>, <<"d","a","r","k","p","i","n","k">> }
isColorName(value) == toLowerCase(value) \in colorNames

positionKeywords == { <<"t","o","p">>, <<"b","o","t","t","o","m">>, <<"l","e","f","t">>, <<"r","i","g","h","t">>, <<"c","e","n","t","e","r">> }
isPositionKeyword(value) == toLowerCase(value) \in positionKeywords

\* a JavaScript object used as a map: a sequence of [key, value] in insertion order;
\* writing a key it holds replaces the value in place
MapHas(m, k) == \E i \in DOMAIN m : m[i].key = k
MapPut(m, k, v) ==
  IF k = <<"_","_","p","r","o","t","o","_","_">>
    THEN m   \* sets the prototype of the object (v is an object), adds no key
  ELSE IF MapHas(m, k)
    THEN [i \in DOMAIN m |-> IF m[i].key = k THEN [key |-> k, value |-> v] ELSE m[i]]
    ELSE Append(m, [key |-> k, value |-> v])
MapKeys(m) == [i \in DOMAIN m |-> m[i].key]
MapGet(m, k) == m[CHOOSE i \in DOMAIN m : m[i].key = k].value

BinaryExpression(op, l, r) ==
  [type |-> "binaryExpression", operator |-> op, left |-> l, right |-> r]

(***************************************************************************)
(* The methods of the parser call each other through call, this[method](),  *)
(* which is defined after them.                                             *)
(***************************************************************************)
RECURSIVE call(_, _, _)

RECURSIVE parseExpression(_, _), parseTernary(_, _), parseLogical(_, _), LogicalLoop(_, _, _),
          parseComparison(_, _), ComparisonLoop(_, _, _), parseAdditive(_, _),
          AdditiveLoop(_, _, _), parseMultiplicative(_, _), MultiplicativeLoop(_, _, _),
          parsePrimary(_, _), parseArray(_, _), ArrayLoop(_, _, _), parseObject(_, _),
          ObjectLoop(_, _, _)

parseExpression(toks, pos) == call("parseTernary", toks, pos)

parseTernary(toks, pos) ==
  Then(call("parseLogical", toks, pos), LAMBDA c :
    IF peek(toks, c.pos).value = <<"?">>
      THEN Then(call("parseExpression", toks, c.pos + 1), LAMBDA t :
           Then(expect(toks, t.pos, "SYMBOL", <<":">>), LAMBDA colon :
           Then(call("parseExpression", toks, colon.pos), LAMBDA f :
             Ok(f.pos, [type |-> "ternary", condition |-> c.node,
                        trueExpr |-> t.node, falseExpr |-> f.node]))))
      ELSE c)

parseLogical(toks, pos) ==
  Then(call("parseComparison", toks, pos), LAMBDA l : LogicalLoop(toks, l.pos, l.node))

LogicalLoop(toks, pos, left) ==
  LET t == peek(toks, pos)
  IN  IF t.type = "OPERATOR" /\ t.value \in { <<"=","=">>, <<"!","=">> }
        THEN Then(call("parseComparison", toks, pos + 1), LAMBDA r :
               LogicalLoop(toks, r.pos, BinaryExpression(t.value, left, r.node)))
        ELSE Ok(pos, left)

parseComparison(toks, pos) ==
  Then(call("parseAdditive", toks, pos), LAMBDA l : ComparisonLoop(toks, l.pos, l.node))

ComparisonLoop(toks, pos, left) ==
  LET t == peek(toks, pos)
  IN  IF t.value \in { <<"<">>, <<">">>, <<"<","=">>, <<">","=">> }
        THEN Then(call("parseAdditive", toks, pos + 1), LAMBDA r :
               ComparisonLoop(toks, r.pos, BinaryExpression(t.value, left, r.node)))
        ELSE Ok(pos, left)

parseAdditive(toks, pos) ==
  Then(call("parseMultiplicative", toks, pos), LAMBDA l : AdditiveLoop(toks, l.pos, l.node))

AdditiveLoop(toks, pos, left) ==
  LET t == peek(toks, pos)
  IN  IF t.value \in { <<"+">>, <<"-">> }
        THEN Then(call("parseMultiplicative", toks, pos + 1), LAMBDA r :
               AdditiveLoop(toks, r.pos, BinaryExpression(t.value, left, r.node)))
        ELSE Ok(pos, left)

parseMultiplicative(toks, pos) ==
  Then(call("parsePrimary", toks, pos), LAMBDA l : MultiplicativeLoop(toks, l.pos, l.node))

\* a variant in which + and - are taken at the level of * / %
MultiplicativeLoop_Additive(toks, pos, left) ==
  LET t == peek(toks, pos)
  IN  IF t.value \in { <<"*">>, <<"/">>, <<"%">>, <<"+">>, <<"-">> }
        THEN Then(call("parsePrimary", toks, pos + 1), LAMBDA r :
               MultiplicativeLoop(toks, r.pos, BinaryExpression(t.value, left, r.node)))
        ELSE Ok(pos, left)

MultiplicativeLoop(toks, pos, left) ==
  LET t == peek(toks, pos)
  IN  IF t.value \in { <<"*">>, <<"/">>, <<"%">> }
        THEN Then(call("parsePrimary", toks, pos + 1), LAMBDA r :
               MultiplicativeLoop(toks, r.pos, BinaryExpression(t.value, left, r.node)))
        ELSE Ok(pos, left)

parsePrimary(toks, pos) ==
  LET token == peek(toks, pos)
  IN  IF token.type = "STRING" THEN Ok(pos + 1, [type |-> "string", value |-> token.value])
      ELSE IF token.type = "NUMBER" THEN Ok(pos + 1, [type |-> "number", value |-> token.value])
      ELSE IF token.value = <<"[">> THEN call("parseArray", toks, pos)
      ELSE IF token.value = <<"{">> /\ peekAhead(toks, pos, 1).type = "IDENTIFIER"
        THEN call("parseObject", toks, pos)
      ELSE IF token.type = "IDENTIFIER"
        THEN IF token.value \in { <<"t","r","u","e">>, <<"f","a","l","s","e">> }
               THEN Ok(pos + 1, [type |-> "boolean", value |-> (token.value = <<"t","r","u","e">>)])
             ELSE IF peek(toks, pos + 1).value = <<".">>
               THEN Then(expect(toks, pos + 2, "IDENTIFIER", <<>>), LAMBDA property :
                      Ok(property.pos, [type |-> "dotNotation", object |-> token.value,
                                        property |-> property.node.value]))
             ELSE IF \/ (Len(token.value) > 0 /\ token.value[1] = "#")
                     \/ isColorName(token.value)
                     \/ isPositionKeyword(token.value)
               THEN Ok(pos + 1, [type |-> "string", value |-> token.value])
             ELSE Ok(pos + 1, [type |-> "variable", value |-> token.value])
      ELSE Ok(pos, NullNode)

parseArray(toks, pos) ==
  Then(expect(toks, pos, "SYMBOL", <<"[">>), LAMBDA open :
  Then(ArrayLoop(toks, open.pos, <<>>), LAMBDA elements :
  Then(expect(toks, elements.pos, "SYMBOL", <<"]">>), LAMBDA close :
    Ok(close.pos, [type |-> "array", elements |-> elements.node]))))

ArrayLoop(toks, pos, elements) ==
  IF peek(toks, pos).value # <<"]">> /\ ~isAtEnd(toks, pos)
    THEN Then(call("parseExpression", toks, pos), LAMBDA e :
           LET next == skipIf(toks, e.pos, <<",">>)
           IN  IF next = pos THEN Hung(pos)
                             ELSE ArrayLoop(toks, next, Append(elements, e.node)))
    ELSE Ok(pos, elements)

parseObject(toks, pos) ==
  Then(expect(toks, pos, "SYMBOL", <<"{">>), LAMBDA open :
  Then(ObjectLoop(toks, open.pos, <<>>), LAMBDA properties :
  Then(expect(toks, properties.pos, "SYMBOL", <<"}">>), LAMBDA close :
    Ok(close.pos, [type |-> "object", properties |-> properties.node]))))

ObjectLoop(toks, pos, properties) ==
  IF peek(toks, pos).value # <<"}">> /\ ~isAtEnd(toks, pos)
    THEN Then(expect(toks, pos, "IDENTIFIER", <<>>), LAMBDA key :
         Then(expect(toks, key.pos, "SYMBOL", <<":">>), LAMBDA colon :
         Then(call("parseExpression", toks, colon.pos), LAMBDA value :
           ObjectLoop(toks, skipIf(toks, value.pos, <<",">>),
                      MapPut(properties, key.node.value, value.node)))))
    ELSE Ok(pos, properties)

\* what parseTopLevelElement gives for "no element here" (the JavaScript null)
NoElement == [type |-> "none"]
True == [type |-> "boolean", value |-> TRUE]

PushElement(elements, el) == IF el.type = "none" THEN elements ELSE Append(elements, el)

eventNames ==
  { <<"o","n","C","l","i","c","k">>, <<"o","n","H","o","v","e","r">>, <<"o","n","C","h","a","n","g","e">>, <<"o","n","F","o","c","u","s">>, <<"o","n","B","l","u","r">>, <<"o","n","S","u","b","m","i","t">>,
    <<"o","n","D","r","a","g","S","t","a","r","t">>, <<"o","n","D","r","a","g","E","n","d">>, <<"o","n","D","r","o","p">> }
swipeNames == { <<"o","n","S","w","i","p","e","L","e","f","t">>, <<"o","n","S","w","i","p","e","R","i","g","h","t">>, <<"o","n","S","w","i","p","e","U","p">>, <<"o","n","S","w","i","p","e","D","o","w","n">> }

RECURSIVE parseTopLevelElement(_, _), ElementBodyLoop(_, _, _), parseElementBlock(_, _),
          ElementBlockLoop(_, _, _), parseForLoop(_, _), parseEventHandlerBody(_, _),
          EventHandlerBodyLoop(_, _, _), ArgumentLoop(_, _, _), parseWaitAction(_, _),
          parseEventHandler(_, _, _), parseIfAction(_, _), parseBlock(_, _), BlockLoop(_, _, _), parseIfStatement(_, _)

\* while (this.peek().value !== ')') { args.push(this.parseExpression()); ... }
\* an expression that reads no token leaves the loop where it was
ArgumentLoop(toks, pos, args) ==
  IF peek(toks, pos).value # <<")">>
    THEN Then(call("parseExpression", toks, pos), LAMBDA e :
           LET next == skipIf(toks, e.pos, <<",">>)
           IN  IF next = pos THEN Hung(pos)
                             ELSE ArgumentLoop(toks, next, Append(args, e.node)))
    ELSE Ok(pos, args)

\* while (this.peek().value !== ')') { params.push(this.expect('IDENTIFIER').value); ... }
RECURSIVE ParameterLoop(_, _, _)
ParameterLoop(toks, pos, params) ==
  IF peek(toks, pos).value # <<")">>
    THEN Then(expect(toks, pos, "IDENTIFIER", <<>>), LAMBDA p :
           ParameterLoop(toks, skipIf(toks, p.pos, <<",">>), Append(params, p.node.value)))
    ELSE Ok(pos, params)

parseElementBlock(toks, pos) == ElementBlockLoop(toks, pos, <<>>)

ElementBlockLoop(toks, pos, elements) ==
  IF peek(toks, pos).value # <<"}">> /\ ~isAtEnd(toks, pos)
    THEN LET p == skipWhitespaceTokens(toks, pos)
         IN  IF peek(toks, p).value = <<"}">>
               THEN Ok(p, elements)
               ELSE Then(call("parseTopLevelElement", toks, p), LAMBDA el :
                      IF el.pos = pos
                        THEN Hung(pos)
                        ELSE ElementBlockLoop(toks, el.pos, PushElement(elements, el.node)))
    ELSE Ok(pos, elements)

parseForLoop(toks, pos) ==
  Then(expect(toks, pos, "IDENTIFIER", <<"f","o","r">>), LAMBDA for :
  Then(expect(toks, for.pos, "SYMBOL", <<"(">>), LAMBDA open :
  Then(expect(toks, open.pos, "IDENTIFIER", <<>>), LAMBDA varName :
  Then(expect(toks, varName.pos, "IDENTIFIER", <<"i","n">>), LAMBDA in :
  Then(call("parseExpression", toks, in.pos), LAMBDA collection :
  Then(expect(toks, collection.pos, "SYMBOL", <<")">>), LAMBDA close :
  Then(expect(toks, close.pos, "SYMBOL", <<"{">>), LAMBDA lbrace :
  Then(call("parseElementBlock", toks, lbrace.pos), LAMBDA elements :
  Then(expect(toks, elements.pos, "SYMBOL", <<"}">>), LAMBDA rbrace :
    Ok(rbrace.pos, [type |-> "ForLoop", varName |-> varName.node.value,
                    collection |-> collection.node, elements |-> elements.node]))))))))))

\* DirectText with the text bound to props.text whatever the element
DirectText_AlwaysText(toks, pos, elementName) ==
  IF peek(toks, pos).type = "STRING"
    THEN Then(call("parseExpression", toks, pos), LAMBDA directText :
           Ok(directText.pos, MapPut(<<>>, <<"t","e","x","t">>, directText.node)))
    ELSE Ok(pos, <<>>)

\* the text given directly in the call: props.src, props.placeholder or props.text
DirectText(toks, pos, elementName) ==
  IF peek(toks, pos).type = "STRING"
    THEN Then(call("parseExpression", toks, pos), LAMBDA directText :
           Ok(directText.pos,
              MapPut(<<>>, IF elementName = <<"i","m","a","g","e">> THEN <<"s","r","c">>
                           ELSE IF elementName = <<"i","n","p","u","t">> THEN <<"p","l","a","c","e","h","o","l","d","e","r">>
                           ELSE <<"t","e","x","t">>,
                     directText.node)))
    ELSE Ok(pos, <<>>)

\* else { ... } after an if block of elements; hasElse tells null from an empty list
ElseElements(toks, pos) ==
  IF peek(toks, pos).value = <<"e","l","s","e">>
    THEN Then(expect(toks, pos + 1, "SYMBOL", <<"{">>), LAMBDA lbrace :
         Then(call("parseElementBlock", toks, lbrace.pos), LAMBDA elseChildren :
         Then(expect(toks, elseChildren.pos, "SYMBOL", <<"}">>), LAMBDA rbrace :
           Ok(rbrace.pos, [hasElse |-> TRUE, elseChildren |-> elseChildren.node]))))
    ELSE Ok(pos, [hasElse |-> FALSE, elseChildren |-> <<>>])

ElementBodyLoop(toks, pos, acc) ==
  IF peek(toks, pos).value # <<"}">> /\ ~isAtEnd(toks, pos)
    THEN
      LET p == skipWhitespaceTokens(toks, pos)
          token == peek(toks, p)
          nextToken == peekAhead(toks, p, 1)
      IN  IF token.value = <<"}">> THEN Ok(p, acc)
          ELSE IF token.type = "IDENTIFIER" /\ nextToken.value = <<":">>
            THEN Then(expect(toks, p + 1, "SYMBOL", <<":">>), LAMBDA colon :
                 Then(call("parseExpression", toks, colon.pos), LAMBDA value :
                   ElementBodyLoop(toks, skipIf(toks, value.pos, <<";">>),
                     [acc EXCEPT !.props = MapPut(@, token.value, value.node)])))
          ELSE IF token.type = "IDENTIFIER" /\ nextToken.value = <<";">>
            THEN Then(expect(toks, p + 1, "SYMBOL", <<";">>), LAMBDA semi :
                   ElementBodyLoop(toks, semi.pos,
                     [acc EXCEPT !.props = MapPut(@, token.value, True)]))
          ELSE IF token.type = "IDENTIFIER" /\ token.value \in eventNames
                  /\ nextToken.value = <<"{">>
            THEN Then(parseEventHandler(toks, p + 1, token.value), LAMBDA handler :
                   ElementBodyLoop(toks, handler.pos,
                     [acc EXCEPT !.handlers = Append(@, handler.node)]))
          ELSE IF token.value = <<"i","f">> /\ nextToken.value = <<"(">>
            THEN Then(expect(toks, p + 1, "SYMBOL", <<"(">>), LAMBDA open :
                 Then(call("parseExpression", toks, open.pos), LAMBDA condition :
                 Then(expect(toks, condition.pos, "SYMBOL", <<")">>), LAMBDA close :
                 Then(expect(toks, close.pos, "SYMBOL", <<"{">>), LAMBDA lbrace :
                 Then(call("parseElementBlock", toks, lbrace.pos), LAMBDA ifChildren :
                 Then(expect(toks, ifChildren.pos, "SYMBOL", <<"}">>), LAMBDA rbrace :
                 Then(ElseElements(toks, rbrace.pos), LAMBDA else :
                   ElementBodyLoop(toks, else.pos,
                     [acc EXCEPT !.children =
                        Append(@, [type |-> "if", condition |-> condition.node,
                                   children |-> ifChildren.node,
                                   hasElse |-> else.node.hasElse,
                                   elseChildren |-> else.node.elseChildren])]))))))))
          ELSE IF token.value = <<"f","o","r">> /\ nextToken.value = <<"(">>
            THEN Then(call("parseForLoop", toks, p), LAMBDA loop :
                   ElementBodyLoop(toks, loop.pos,
                     [acc EXCEPT !.children = Append(@, loop.node)]))
          ELSE IF token.type = "IDENTIFIER" /\ nextToken.value = <<"(">>
            THEN Then(call("parseTopLevelElement", toks, p), LAMBDA el :
                   IF el.pos = pos
                     THEN Hung(pos)
                     ELSE ElementBodyLoop(toks, el.pos,
                            [acc EXCEPT !.children = PushElement(@, el.node)]))
          ELSE ElementBodyLoop(toks, p + 1, acc)
    ELSE Ok(pos, acc)

parseTopLevelElement(toks, pos) ==
  LET elementName == peek(toks, pos).value
      lookAhead == peekAhead(toks, pos, 1)
  IN  IF peek(toks, pos).type # "IDENTIFIER" THEN Ok(pos, NoElement)
      ELSE IF elementName = <<"o","n","K","e","y">> /\ lookAhead.value = <<"(">> THEN Ok(pos, NoElement)
      ELSE IF elementName = <<"f","o","r">> /\ lookAhead.value = <<"(">> THEN call("parseForLoop", toks, pos)
      ELSE
        Then(expect(toks, pos + 1, "SYMBOL", <<"(">>), LAMBDA open :
        Then(DirectText(toks, open.pos, elementName), LAMBDA props :
        Then(expect(toks, props.pos, "SYMBOL", <<")">>), LAMBDA close :
          IF peek(toks, close.pos).value = <<"{">>
            THEN Then(ElementBodyLoop(toks, close.pos + 1,
                        [props |-> props.node, children |-> <<>>, handlers |-> <<>>]),
                      LAMBDA body :
                 Then(expect(toks, body.pos, "SYMBOL", <<"}">>), LAMBDA rbrace :
                   Ok(rbrace.pos, [type |-> "Element", name |-> elementName,
                                   props |-> body.node.props,
                                   children |-> body.node.children,
                                   handlers |-> body.node.handlers])))
            ELSE Ok(close.pos, [type |-> "Element", name |-> elementName,
                                props |-> props.node, children |-> <<>>,
                                handlers |-> <<>>]))))

Assignment(key, value) == [type |-> "assignment", key |-> key, value |-> value]

parseEventHandlerBody(toks, pos) == EventHandlerBodyLoop(toks, pos, <<>>)

EventHandlerBodyLoop(toks, pos, actions) ==
  IF peek(toks, pos).value # <<"}">> /\ ~isAtEnd(toks, pos)
    THEN
      LET p == skipWhitespaceTokens(toks, pos)
          token == peek(toks, p)
          next == peekAhead(toks, p, 1)
      IN  IF token.value = <<"}">> THEN Ok(p, actions)
          ELSE IF token.value = <<"i","f">> /\ next.value = <<"(">>
            THEN Then(call("parseIfAction", toks, p), LAMBDA a :
                   EventHandlerBodyLoop(toks, a.pos, Append(actions, a.node)))
          ELSE IF token.value = <<"w","a","i","t">> /\ next.value = <<"(">>
            THEN Then(call("parseWaitAction", toks, p), LAMBDA a :
                   EventHandlerBodyLoop(toks, a.pos, Append(actions, a.node)))
          ELSE IF token.value = <<"e","l","s","e">> THEN Ok(p, actions)
          ELSE IF token.type = "IDENTIFIER"
            THEN
              IF next.value = <<"(">>
                THEN Then(expect(toks, p + 1, "SYMBOL", <<"(">>), LAMBDA open :
                     Then(ArgumentLoop(toks, open.pos, <<>>), LAMBDA args :
                     Then(expect(toks, args.pos, "SYMBOL", <<")">>), LAMBDA close :
                       EventHandlerBodyLoop(toks, skipIf(toks, close.pos, <<";">>),
                         Append(actions, [type |-> "functionCall", name |-> token.value,
                                          args |-> args.node])))))
              ELSE IF next.value = <<".">> /\ peekAhead(toks, p, 2).type = "IDENTIFIER"
                THEN Then(expect(toks, p + 1, "SYMBOL", <<".">>), LAMBDA dot :
                     Then(expect(toks, dot.pos, "IDENTIFIER", <<>>), LAMBDA propName :
                       LET key == token.value \o <<".">> \o propName.node.value
                       IN  IF peek(toks, propName.pos).value = <<":">>
                             THEN Then(call("parseExpression", toks, propName.pos + 1), LAMBDA value :
                                    EventHandlerBodyLoop(toks, value.pos,
                                      Append(actions, Assignment(key, value.node))))
                             ELSE EventHandlerBodyLoop(toks, skipIf(toks, propName.pos, <<";">>),
                                    Append(actions, Assignment(key, True)))))
              ELSE IF next.value = <<":">>
                THEN Then(expect(toks, p + 1, "SYMBOL", <<":">>), LAMBDA colon :
                     Then(call("parseExpression", toks, colon.pos), LAMBDA value :
                       EventHandlerBodyLoop(toks, skipIf(toks, value.pos, <<";">>),
                         Append(actions, Assignment(token.value, value.node)))))
              ELSE IF next.value = <<";">>
                THEN Then(expect(toks, p + 1, "SYMBOL", <<";">>), LAMBDA semi :
                       EventHandlerBodyLoop(toks, semi.pos,
                         Append(actions, Assignment(token.value, True))))
              ELSE EventHandlerBodyLoop(toks, p + 1, actions)
          ELSE EventHandlerBodyLoop(toks, p + 1, actions)
    ELSE Ok(pos, actions)

parseWaitAction(toks, pos) ==
  Then(expect(toks, pos, "IDENTIFIER", <<"w","a","i","t">>), LAMBDA wait :
  Then(expect(toks, wait.pos, "SYMBOL", <<"(">>), LAMBDA open :
  Then(call("parseExpression", toks, open.pos), LAMBDA duration :
  Then(expect(toks, duration.pos, "SYMBOL", <<")">>), LAMBDA close :
    IF peek(toks, close.pos).value = <<"{">>
      THEN Then(expect(toks, close.pos, "SYMBOL", <<"{">>), LAMBDA lbrace :
           Then(call("parseEventHandlerBody", toks, lbrace.pos), LAMBDA body :
           Then(expect(toks, body.pos, "SYMBOL", <<"}">>), LAMBDA rbrace :
             Ok(rbrace.pos, [type |-> "wait", duration |-> duration.node,
                             body |-> body.node]))))
      ELSE Ok(skipIf(toks, close.pos, <<";">>),
              [type |-> "wait", duration |-> duration.node, body |-> <<>>])))))

parseEventHandler(toks, pos, eventName) ==
  Then(expect(toks, pos, "SYMBOL", <<"{">>), LAMBDA lbrace :
  Then(call("parseEventHandlerBody", toks, lbrace.pos), LAMBDA actions :
  Then(expect(toks, actions.pos, "SYMBOL", <<"}">>), LAMBDA rbrace :
    Ok(rbrace.pos, [event |-> eventName, actions |-> actions.node]))))

parseIfAction(toks, pos) ==
  Then(expect(toks, pos, "IDENTIFIER", <<"i","f">>), LAMBDA if :
  Then(expect(toks, if.pos, "SYMBOL", <<"(">>), LAMBDA open :
  Then(call("parseExpression", toks, open.pos), LAMBDA condition :
  Then(expect(toks, condition.pos, "SYMBOL", <<")">>), LAMBDA close :
  Then(expect(toks, close.pos, "SYMBOL", <<"{">>), LAMBDA lbrace :
  Then(call("parseEventHandlerBody", toks, lbrace.pos), LAMBDA body :
  Then(expect(toks, body.pos, "SYMBOL", <<"}">>), LAMBDA rbrace :
    LET p == skipWhitespaceTokens(toks, rbrace.pos)
    IN  IF peek(toks, p).value = <<"e","l","s","e">>
          THEN Then(expect(toks, skipWhitespaceTokens(toks, p + 1), "SYMBOL", <<"{">>),
                    LAMBDA elbrace :
               Then(call("parseEventHandlerBody", toks, elbrace.pos), LAMBDA elseBody :
               Then(expect(toks, elseBody.pos, "SYMBOL", <<"}">>), LAMBDA erbrace :
                 Ok(erbrace.pos, [type |-> "if", condition |-> condition.node,
                                  body |-> body.node, hasElse |-> TRUE,
                                  elseBody |-> elseBody.node]))))
          ELSE Ok(p, [type |-> "if", condition |-> condition.node, body |-> body.node,
                      hasElse |-> FALSE, elseBody |-> <<>>]))))))))

parseBlock(toks, pos) == BlockLoop(toks, pos, <<>>)

BlockLoop(toks, pos, statements) ==
  IF peek(toks, pos).value # <<"}">> /\ ~isAtEnd(toks, pos)
    THEN
      LET p == skipWhitespaceTokens(toks, pos)
          token == peek(toks, p)
          next == peekAhead(toks, p, 1)
      IN  IF token.value = <<"}">> THEN Ok(p, statements)
          ELSE IF token.value = <<"i","f">>
            THEN Then(call("parseIfStatement", toks, p), LAMBDA s :
                   BlockLoop(toks, s.pos, Append(statements, s.node)))
          ELSE IF token.type = "IDENTIFIER" /\ next.value = <<"(">>
            THEN Then(expect(toks, p + 1, "SYMBOL", <<"(">>), LAMBDA open :
                 Then(ArgumentLoop(toks, open.pos, <<>>), LAMBDA args :
                 Then(expect(toks, args.pos, "SYMBOL", <<")">>), LAMBDA close :
                   BlockLoop(toks, skipIf(toks, close.pos, <<";">>),
                     Append(statements, [type |-> "functionCall", name |-> token.value,
                                         args |-> args.node])))))
          ELSE IF token.type = "IDENTIFIER" /\ next.value = <<"=">>
            THEN Then(expect(toks, p + 1, "SYMBOL", <<"=">>), LAMBDA eq :
                 Then(call("parseExpression", toks, eq.pos), LAMBDA value :
                   BlockLoop(toks, skipIf(toks, value.pos, <<";">>),
                     Append(statements, [type |-> "assignment", varName |-> token.value,
                                         value |-> value.node]))))
          ELSE IF token.type = "IDENTIFIER" /\ next.value = <<";">>
            THEN Then(expect(toks, p + 1, "SYMBOL", <<";">>), LAMBDA semi :
                   BlockLoop(toks, semi.pos,
                     Append(statements, [type |-> "assignment", varName |-> token.value,
                                         value |-> True])))
          ELSE BlockLoop(toks, p + 1, statements)
    ELSE Ok(pos, statements)

parseIfStatement(toks, pos) ==
  Then(expect(toks, pos, "IDENTIFIER", <<"i","f">>), LAMBDA if :
  Then(expect(toks, if.pos, "SYMBOL", <<"(">>), LAMBDA open :
  Then(call("parseExpression", toks, open.pos), LAMBDA condition :
  Then(expect(toks, condition.pos, "SYMBOL", <<")">>), LAMBDA close :
  Then(expect(toks, close.pos, "SYMBOL", <<"{">>), LAMBDA lbrace :
  Then(call("parseBlock", toks, lbrace.pos), LAMBDA body :
  Then(expect(toks, body.pos, "SYMBOL", <<"}">>), LAMBDA rbrace :
    IF peek(toks, rbrace.pos).value = <<"e","l","s","e">>
      THEN Then(expect(toks, rbrace.pos + 1, "SYMBOL", <<"{">>), LAMBDA elbrace :
           Then(call("parseBlock", toks, elbrace.pos), LAMBDA elseBody :
           Then(expect(toks, elseBody.pos, "SYMBOL", <<"}">>), LAMBDA erbrace :
             Ok(erbrace.pos, [type |-> "if", condition |-> condition.node,
                              body |-> body.node, hasElse |-> TRUE,
                              elseBody |-> elseBody.node]))))
      ELSE Ok(rbrace.pos, [type |-> "if", condition |-> condition.node,
                           body |-> body.node, hasElse |-> FALSE,
                           elseBody |-> <<>>]))))))))

parseKeyHandler(toks, pos) ==
  Then(expect(toks, pos, "IDENTIFIER", <<"o","n","K","e","y">>), LAMBDA onKey :
  Then(expect(toks, onKey.pos, "SYMBOL", <<"(">>), LAMBDA open :
  Then(call("parseExpression", toks, open.pos), LAMBDA keyExpression :
  Then(expect(toks, keyExpression.pos, "SYMBOL", <<")">>), LAMBDA close :
  Then(expect(toks, close.pos, "SYMBOL", <<"{">>), LAMBDA lbrace :
  Then(call("parseEventHandlerBody", toks, lbrace.pos), LAMBDA actions :
  Then(expect(toks, actions.pos, "SYMBOL", <<"}">>), LAMBDA rbrace :
    Ok(rbrace.pos, [type |-> "keyHandler", key |-> keyExpression.node,
                    actions |-> actions.node]))))))))

\* direction.replace('onSwipe', '').toLowerCase(), for one of the four swipe names
swipeDirection(name) == toLowerCase(SubSeq(name, 8, Len(name)))

parseSwipeHandler(toks, pos) ==
  Then(expect(toks, pos, "IDENTIFIER", <<>>), LAMBDA direction :
  Then(expect(toks, direction.pos, "SYMBOL", <<"{">>), LAMBDA lbrace :
  Then(call("parseEventHandlerBody", toks, lbrace.pos), LAMBDA actions :
  Then(expect(toks, actions.pos, "SYMBOL", <<"}">>), LAMBDA rbrace :
    Ok(rbrace.pos, [type |-> "SwipeHandler",
                    direction |-> swipeDirection(direction.node.value),
                    actions |-> actions.node])))))

\* the loop of parsePage; the key handlers it pushes to this.ast.keyHandlers are
\* carried in acc.keyHandlers
RECURSIVE PageLoop(_, _, _)
PageLoop(toks, pos, acc) ==
  IF peek(toks, pos).value # <<"}">> /\ ~isAtEnd(toks, pos)
    THEN
      LET p == skipWhitespaceTokens(toks, pos)
          token == peek(toks, p)
          nextToken == peekAhead(toks, p, 1)
      IN  IF token.value = <<"}">> THEN Ok(p, acc)
          ELSE IF token.value = <<"o","n","K","e","y">> /\ nextToken.value = <<"(">>
            THEN Then(call("parseKeyHandler", toks, p), LAMBDA h :
                   PageLoop(toks, h.pos, [acc EXCEPT !.keyHandlers = Append(@, h.node)]))
          ELSE IF token.value \in swipeNames
            THEN Then(call("parseSwipeHandler", toks, p), LAMBDA h :
                   PageLoop(toks, h.pos, [acc EXCEPT !.elements = Append(@, h.node)]))
          ELSE IF token.type = "IDENTIFIER" /\ token.value = <<"p","a","d","d","i","n","g">>
                  /\ nextToken.value = <<":">>
            THEN Then(expect(toks, p + 1, "SYMBOL", <<":">>), LAMBDA colon :
                 Then(call("parseExpression", toks, colon.pos), LAMBDA padding :
                   PageLoop(toks, skipIf(toks, padding.pos, <<";">>),
                            [acc EXCEPT !.padding = padding.node])))
          ELSE IF token.type = "IDENTIFIER" /\ token.value = <<"b","g">> /\ nextToken.value = <<":">>
            THEN Then(expect(toks, p + 1, "SYMBOL", <<":">>), LAMBDA colon :
                 Then(call("parseExpression", toks, colon.pos), LAMBDA bg :
                   PageLoop(toks, skipIf(toks, bg.pos, <<";">>), [acc EXCEPT !.bg = bg.node])))
          ELSE Then(call("parseTopLevelElement", toks, p), LAMBDA el :
                 IF el.pos = pos
                   THEN Hung(pos)
                   ELSE PageLoop(toks, el.pos,
                                 [acc EXCEPT !.elements = PushElement(@, el.node)]))
    ELSE Ok(pos, acc)

parsePage(toks, pos) ==
  Then(expect(toks, pos, "SYMBOL", <<"{">>), LAMBDA lbrace :
  Then(PageLoop(toks, lbrace.pos, [elements |-> <<>>, padding |-> NoElement,
                                   bg |-> NoElement, keyHandlers |-> <<>>]),
       LAMBDA body :
  Then(expect(toks, body.pos, "SYMBOL", <<"}">>), LAMBDA rbrace :
    Ok(rbrace.pos, body.node))))

parseFunction(toks, pos) ==
  Then(expect(toks, pos, "SYMBOL", <<"(">>), LAMBDA open :
  Then(ParameterLoop(toks, open.pos, <<>>), LAMBDA params :
  Then(expect(toks, params.pos, "SYMBOL", <<")">>), LAMBDA close :
  Then(expect(toks, close.pos, "SYMBOL", <<"{">>), LAMBDA lbrace :
  Then(call("parseBlock", toks, lbrace.pos), LAMBDA body :
  Then(expect(toks, body.pos, "SYMBOL", <<"}">>), LAMBDA rbrace :
    Ok(rbrace.pos, [params |-> params.node, body |-> body.node])))))))

parseFor(toks, pos) ==
  Then(expect(toks, pos, "IDENTIFIER", <<>>), LAMBDA for :
  Then(expect(toks, for.pos, "SYMBOL", <<"(">>), LAMBDA open :
  Then(expect(toks, open.pos, "IDENTIFIER", <<>>), LAMBDA varName :
  Then(expect(toks, varName.pos, "IDENTIFIER", <<>>), LAMBDA in :
  Then(call("parseExpression", toks, in.pos), LAMBDA collection :
  Then(expect(toks, collection.pos, "SYMBOL", <<")">>), LAMBDA close :
  Then(expect(toks, close.pos, "SYMBOL", <<"{">>), LAMBDA lbrace :
  Then(call("parseBlock", toks, lbrace.pos), LAMBDA body :
  Then(expect(toks, body.pos, "SYMBOL", <<"}">>), LAMBDA rbrace :
    Ok(rbrace.pos, [type |-> "for", varName |-> varName.node.value,
                    collection |-> collection.node, body |-> body.node]))))))))))

parseState(toks, pos) ==
  Then(expect(toks, pos, "IDENTIFIER", <<"s","t","a","t","e">>), LAMBDA state :
  Then(expect(toks, state.pos, "IDENTIFIER", <<>>), LAMBDA name :
  Then(expect(toks, name.pos, "SYMBOL", <<"=">>), LAMBDA eq :
  Then(call("parseExpression", toks, eq.pos), LAMBDA value :
    Ok(skipIf(toks, value.pos, <<";">>), [name |-> name.node.value, value |-> value.node])))))

parseInterval(toks, pos) ==
  Then(expect(toks, pos, "IDENTIFIER", <<"e","v","e","r","y">>), LAMBDA every :
  Then(expect(toks, every.pos, "SYMBOL", <<"(">>), LAMBDA open :
  Then(call("parseExpression", toks, open.pos), LAMBDA duration :
  Then(expect(toks, duration.pos, "SYMBOL", <<")">>), LAMBDA close :
  Then(expect(toks, close.pos, "SYMBOL", <<"{">>), LAMBDA lbrace :
  Then(call("parseEventHandlerBody", toks, lbrace.pos), LAMBDA actions :
  Then(expect(toks, actions.pos, "SYMBOL", <<"}">>), LAMBDA rbrace :
    Ok(rbrace.pos, [duration |-> duration.node, actions |-> actions.node]))))))))

parseWatcher(toks, pos) ==
  Then(expect(toks, pos, "IDENTIFIER", <<"w","a","t","c","h">>), LAMBDA watch :
  Then(expect(toks, watch.pos, "SYMBOL", <<"(">>), LAMBDA open :
  Then(call("parseExpression", toks, open.pos), LAMBDA variable :
  Then(expect(toks, variable.pos, "SYMBOL", <<")">>), LAMBDA close :
  Then(expect(toks, close.pos, "SYMBOL", <<"{">>), LAMBDA lbrace :
  Then(call("parseEventHandlerBody", toks, lbrace.pos), LAMBDA actions :
  Then(expect(toks, actions.pos, "SYMBOL", <<"}">>), LAMBDA rbrace :
    Ok(rbrace.pos, [variable |-> variable.node, actions |-> actions.node]))))))))

parseComponent(toks, pos) ==
  Then(expect(toks, pos, "IDENTIFIER", <<"c","o","m","p","o","n","e","n","t">>), LAMBDA component :
  Then(expect(toks, component.pos, "IDENTIFIER", <<>>), LAMBDA name :
  Then(expect(toks, name.pos, "SYMBOL", <<"(">>), LAMBDA open :
  Then(ParameterLoop(toks, open.pos, <<>>), LAMBDA params :
  Then(expect(toks, params.pos, "SYMBOL", <<")">>), LAMBDA close :
  Then(expect(toks, close.pos, "SYMBOL", <<"{">>), LAMBDA lbrace :
  Then(call("parseElementBlock", toks, lbrace.pos), LAMBDA elements :
  Then(expect(toks, elements.pos, "SYMBOL", <<"}">>), LAMBDA rbrace :
    Ok(rbrace.pos, [name |-> name.node.value, params |-> params.node,
                    elements |-> elements.node])))))))))

RECURSIVE MediaQueryRulesLoop(_, _, _)
MediaQueryRulesLoop(toks, pos, rules) ==
  IF peek(toks, pos).value # <<"}">> /\ ~isAtEnd(toks, pos)
    THEN LET p == skipWhitespaceTokens(toks, pos)
         IN  IF peek(toks, p).value = <<"}">>
               THEN Ok(p, rules)
               ELSE Then(expect(toks, p, "IDENTIFIER", <<>>), LAMBDA selector :
                    Then(expect(toks, selector.pos, "SYMBOL", <<":">>), LAMBDA colon :
                    Then(call("parseExpression", toks, colon.pos), LAMBDA value :
                      MediaQueryRulesLoop(toks, skipIf(toks, value.pos, <<";">>),
                                          MapPut(rules, selector.node.value, value.node)))))
    ELSE Ok(pos, rules)

parseMediaQueryRules(toks, pos) == MediaQueryRulesLoop(toks, pos, <<>>)

\* the scan of isFunctionDeclaration for the parenthesis that closes the one at pos + 1
RECURSIVE FunctionDeclarationScan(_, _, _, _)
FunctionDeclarationScan(toks, pos, offset, parenDepth) ==
  IF parenDepth > 0 /\ pos + offset < Len(toks)
    THEN LET value == toks[pos + offset + 1].value
         IN  FunctionDeclarationScan(toks, pos, offset + 1,
               parenDepth + (IF value = <<"(">> THEN 1 ELSE 0) - (IF value = <<")">> THEN 1 ELSE 0))
    ELSE offset

isFunctionDeclaration(toks, pos) ==
  LET offset == FunctionDeclarationScan(toks, pos, 2, 1)
  IN  pos + offset < Len(toks) /\ toks[pos + offset + 1].value = <<"{">>

\* the ast of parse() before its loop
EmptyProgram ==
  [type |-> "Program", metadata |-> <<>>, pages |-> <<>>, functions |-> <<>>,
   globalVariables |-> <<>>, statements |-> <<>>, keyHandlers |-> <<>>,
   components |-> <<>>, mediaQueries |-> <<>>, watchers |-> <<>>, intervals |-> <<>>,
   imports |-> <<>>]

\* the '#' branch of parse(): #import: path  or  #key = value
parseMetadata(toks, pos) ==
  Then(expect(toks, pos + 1, "IDENTIFIER", <<>>), LAMBDA key :
    IF key.node.value = <<"i","m","p","o","r","t">>
      THEN Then(expect(toks, key.pos, "SYMBOL", <<":">>), LAMBDA colon :
           Then(call("parseExpression", toks, colon.pos), LAMBDA importPath :
             Ok(skipIf(toks, importPath.pos, <<";">>),
                [import |-> TRUE, key |-> key.node.value, value |-> importPath.node])))
      ELSE Then(expect(toks, key.pos, "SYMBOL", <<"=">>), LAMBDA eq :
           Then(call("parseExpression", toks, eq.pos), LAMBDA value :
             Ok(skipIf(toks, value.pos, <<";">>),
                [import |-> FALSE, key |-> key.node.value, value |-> value.node]))))

\* the '@' branch of parse()
parseMediaQuery(toks, pos) ==
  Then(expect(toks, pos + 1, "IDENTIFIER", <<>>), LAMBDA mediaType :
  Then(expect(toks, mediaType.pos, "SYMBOL", <<"{">>), LAMBDA lbrace :
  Then(call("parseMediaQueryRules", toks, lbrace.pos), LAMBDA rules :
  Then(expect(toks, rules.pos, "SYMBOL", <<"}">>), LAMBDA rbrace :
    Ok(rbrace.pos, [mediaType |-> mediaType.node.value, rules |-> rules.node])))))

\* name = value at the top level
parseGlobalVariable(toks, pos) ==
  Then(expect(toks, pos, "IDENTIFIER", <<>>), LAMBDA name :
  Then(expect(toks, name.pos, "SYMBOL", <<"=">>), LAMBDA eq :
  Then(call("parseExpression", toks, eq.pos), LAMBDA value :
    Ok(skipIf(toks, value.pos, <<";">>), [name |-> name.node.value, value |-> value.node]))))

\* this[method](): a call of a method of the parser
call(method, toks, pos) ==
  CASE method = "parseAdditive" -> parseAdditive(toks, pos)
    [] method = "parseArray" -> parseArray(toks, pos)
    [] method = "parseBlock" -> parseBlock(toks, pos)
    [] method = "parseComparison" -> parseComparison(toks, pos)
    [] method = "parseComponent" -> parseComponent(toks, pos)
    [] method = "parseElementBlock" -> parseElementBlock(toks, pos)
    [] method = "parseEventHandlerBody" -> parseEventHandlerBody(toks, pos)
    [] method = "parseExpression" -> parseExpression(toks, pos)
    [] method = "parseFor" -> parseFor(toks, pos)
    [] method = "parseForLoop" -> parseForLoop(toks, pos)
    [] method = "parseFunction" -> parseFunction(toks, pos)
    [] method = "parseGlobalVariable" -> parseGlobalVariable(toks, pos)
    [] method = "parseIfAction" -> parseIfAction(toks, pos)
    [] method = "parseIfStatement" -> parseIfStatement(toks, pos)
    [] method = "parseInterval" -> parseInterval(toks, pos)
    [] method = "parseKeyHandler" -> parseKeyHandler(toks, pos)
    [] method = "parseLogical" -> parseLogical(toks, pos)
    [] method = "parseMediaQuery" -> parseMediaQuery(toks, pos)
    [] method = "parseMediaQueryRules" -> parseMediaQueryRules(toks, pos)
    [] method = "parseMetadata" -> parseMetadata(toks, pos)
    [] method = "parseMultiplicative" -> parseMultiplicative(toks, pos)
    [] method = "parseObject" -> parseObject(toks, pos)
    [] method = "parsePage" -> parsePage(toks, pos)
    [] method = "parsePrimary" -> parsePrimary(toks, pos)
    [] method = "parseState" -> parseState(toks, pos)
    [] method = "parseSwipeHandler" -> parseSwipeHandler(toks, pos)
    [] method = "parseTernary" -> parseTernary(toks, pos)
    [] method = "parseTopLevelElement" -> parseTopLevelElement(toks, pos)
    [] method = "parseWaitAction" -> parseWaitAction(toks, pos)
    [] method = "parseWatcher" -> parseWatcher(toks, pos)

\* the branch an iteration of the loop of parse() takes with the cursor at p
\* (after skipWhitespace)
Dispatch(toks, p) ==
  LET token == peek(toks, p)
      name == token.value
      lookAhead == peekAhead(toks, p, 1)
  IN  IF token.type = "HASH" THEN "metadata"
      ELSE IF token.type = "AT" THEN "mediaQuery"
      ELSE IF token.type = "IDENTIFIER"
        THEN IF name = <<"o","n","K","e","y">> /\ lookAhead.value = <<"(">> THEN "keyHandler"
             ELSE IF name = <<"c","o","m","p","o","n","e","n","t">> /\ lookAhead.type = "IDENTIFIER" THEN "component"
             ELSE IF name = <<"w","a","t","c","h">> /\ lookAhead.value = <<"(">> THEN "watcher"
             ELSE IF name = <<"e","v","e","r","y">> /\ lookAhead.value = <<"(">> THEN "interval"
             ELSE IF name = <<"s","t","a","t","e">> /\ lookAhead.type = "IDENTIFIER" THEN "state"
             ELSE IF lookAhead.value = <<"(">>
               THEN IF peekAhead(toks, p, 2).value = <<"{">> \/ isFunctionDeclaration(toks, p)
                      THEN "function"
                      ELSE "skip"
             ELSE IF lookAhead.value = <<"{">> THEN "page"
             ELSE IF lookAhead.value = <<"=">> THEN "globalVariable"
             ELSE "skip"
      ELSE IF token.value = <<"i","f">> THEN "if"
      ELSE IF token.value = <<"f","o","r">> THEN "for"
      ELSE "skip"

\* the end of an iteration: the Program after a call that gave r, or the exception
Outcome(r, ast, F(_)) ==
  [st |-> r.st, pos |-> r.pos, err |-> r.err, ast |-> IF r.st = "ok" THEN F(r.node) ELSE ast]

\* the method an iteration calls, and the token it starts at (the name of a function
\* or of a page is read by the loop itself)
branchMethod ==
  [metadata |-> "parseMetadata", mediaQuery |-> "parseMediaQuery",
   keyHandler |-> "parseKeyHandler", component |-> "parseComponent",
   watcher |-> "parseWatcher", interval |-> "parseInterval", state |-> "parseState",
   function |-> "parseFunction", page |-> "parsePage",
   globalVariable |-> "parseGlobalVariable", for |-> "parseFor"]
branchStart(branch, p) == IF branch \in {"function", "page"} THEN p + 1 ELSE p

\* what an iteration does to the Program with the node n its branch parsed
store(ast, branch, name, n) ==
  CASE branch = "metadata" ->
         IF n.import THEN [ast EXCEPT !.imports = Append(@, n.value)]
                     ELSE [ast EXCEPT !.metadata = MapPut(@, n.key, n.value)]
    [] branch = "mediaQuery" ->
         [ast EXCEPT !.mediaQueries = MapPut(@, n.mediaType, n.rules)]
    [] branch = "keyHandler" -> [ast EXCEPT !.keyHandlers = Append(@, n)]
    [] branch = "component" ->
         [ast EXCEPT !.components =
            MapPut(@, n.name, [params |-> n.params, elements |-> n.elements])]
    [] branch = "watcher" -> [ast EXCEPT !.watchers = Append(@, n)]
    [] branch = "interval" -> [ast EXCEPT !.intervals = Append(@, n)]
    [] branch \in {"state", "globalVariable"} ->
         [ast EXCEPT !.globalVariables = MapPut(@, n.name, n.value)]
    [] branch = "function" -> [ast EXCEPT !.functions = MapPut(@, name, n)]
    [] branch = "page" ->
         [ast EXCEPT !.keyHandlers = @ \o n.keyHandlers,
                     !.pages = MapPut(@, name, [elements |-> n.elements,
                                               padding |-> n.padding, bg |-> n.bg])]
    [] branch = "for" -> [ast EXCEPT !.statements = Append(@, n)]
    [] OTHER -> ast

\* one iteration of the loop of parse(); this.parseIf is not a method of the class
parseStep(toks, pos, ast) ==
  LET p == skipWhitespaceTokens(toks, pos)
      branch == Dispatch(toks, p)
  IN  Outcome(CASE branch = "if" -> TypeError(p)
                [] branch = "skip" -> Ok(p + 1, NullNode)
                [] OTHER -> call(branchMethod[branch], toks, branchStart(branch, p)),
              ast, LAMBDA n : store(ast, branch, peek(toks, p).value, n))

\* parse() of a new PSLParser(toks), from the cursor pos on
RECURSIVE parseFrom(_, _, _)
parseFrom(toks, pos, ast) ==
  IF isAtEnd(toks, pos)
    THEN [st |-> "returned", pos |-> pos, err |-> NoError, ast |-> ast]
    ELSE LET r == parseStep(toks, pos, ast)
         IN  IF r.st = "ok" THEN parseFrom(toks, r.pos, r.ast) ELSE r

parse(toks) == parseFrom(toks, 0, EmptyProgram)

(***************************************************************************)
(* The parser as a state machine: new PSLParser(tokens).parse(), one step   *)
(* per iteration of the loop of parse(). The token sequences are what the   *)
(* tokenizer gives for the programs of ParseCorpus, and every sequence of   *)
(* up to MaxTokens tokens of BodyTokens after the tokens of each text of    *)
(* ParseContexts (the top level, a page body, an element body, an if block  *)
(* of elements, an event handler body, an argument list, a function body),  *)
(* closed by the EOF token.                                                 *)
(***************************************************************************)
ParseCorpus ==
  { <<"h","o","m","e"," ","{"," ","t","i","t","l","e","(","\"","H","i","\"",")"," ","}">>,
    <<"h","o","m","e"," ","{"," ","t","i","t","l","e","(","\"","H","i","\"",")",";"," ","}">>,
    <<"h","o","m","e"," ","{"," ","1"," ","}">>,
    <<"h","o","m","e"," ","{"," ","b","o","x","(",")"," ","{"," ","i","f"," ","(","x",")"," ","{"," ","t","e","x","t","(","\"","a","\"",")"," ","}"," ","e","l","s","e"," ","{"," ","t","e","x","t","(","\"","b","\"",")"," ","}"," ","}"," ","}">>,
    <<"h","o","m","e"," ","{"," ","b","o","x","(",")"," ","{"," ","i","f"," ","(","x",")"," ","{"," ","t","e","x","t","(","\"","a","\"",")",";"," ","}"," ","}"," ","}">>,
    <<"h","o","m","e"," ","{"," ","b","(",")"," ","{"," ","o","n","C","l","i","c","k"," ","{"," ","g","o","(","1",","," ","n",")"," ","}"," ","}"," ","}">>,
    <<"h","o","m","e"," ","{"," ","b","(",")"," ","{"," ","o","n","C","l","i","c","k"," ","{"," ","g","o","(",";",")"," ","}"," ","}"," ","}">>,
    <<"x"," ","="," ","[","1",","," ","2","]",";">>,
    <<"x"," ","="," ","[",";","]">>,
    <<"i","f"," ","(","x",")"," ","{"," ","y"," ","="," ","1",";"," ","}">>,
    <<"f","o","r"," ","(","x"," ","i","n"," ","x","s",")"," ","{"," ","y"," ","="," ","1",";"," ","}">>,
    <<"\"","i","f","\"">>,
    <<"\"","f","o","r","\"">>,
    <<"f","(","a",","," ","b",")"," ","{"," ","x"," ","="," ","1",";"," ","g","(","x",")",";"," ","i","f"," ","(","x",")"," ","{"," ","y",";"," ","}"," ","e","l","s","e"," ","{"," ","z"," ","="," ","2"," ","}"," ","}">>,
    <<"#","t","i","t","l","e"," ","="," ","\"","x","\"",";","\n","#","i","m","p","o","r","t",":"," ","\"","y","\"">>,
    <<"@","m","o","b","i","l","e"," ","{"," ","s","i","z","e",":"," ","1"," ","}">>,
    <<"s","t","a","t","e"," ","n"," ","="," ","1",";">>,
    <<"e","v","e","r","y","(","1","s",")"," ","{"," ","n",":"," ","2"," ","}">>,
    <<"w","a","t","c","h","(","n",")"," ","{"," ","m",":"," ","1",";"," ","w","a","i","t","(","1","s",")"," ","{"," ","k",";"," ","}"," ","}">>,
    <<"c","o","m","p","o","n","e","n","t"," ","c","(","a",")"," ","{"," ","t","e","x","t","(","\"","x","\"",")"," ","}">>,
    <<"o","n","K","e","y","(","\"","a","\"",")"," ","{"," ","h","o","m","e",".","s","h","o","w",";"," ","}">>,
    <<"h","o","m","e"," ","{"," ","o","n","K","e","y","(","\"","a","\"",")"," ","{"," ","x",":"," ","1"," ","}"," ","o","n","S","w","i","p","e","L","e","f","t"," ","{"," ","a","b","o","u","t",".","s","h","o","w"," ","}"," ","p","a","d","d","i","n","g",":"," ","1",";"," ","b","g",":"," ","r","e","d"," ","}">>,
    <<"h","o","m","e"," ","{"," ","b","(","\"","t","\"",")"," ","{"," ","c","o","l","o","r",":"," ","r","e","d",";"," ","b","o","l","d",";"," ","f","o","r"," ","(","i"," ","i","n"," ","i","t","e","m","s",")"," ","{"," ","t","e","x","t","(","\"","i","\"",")"," ","}"," ","}"," ","}">>,
    <<"h","o","m","e"," ","{"," ","t","i","t","l","e","("," ","}">>,
    <<"h","o","m","e"," ","{"," ","t","i","t","l","e","(","\"","a","\"",")"," ","}"," ","a","b","o","u","t"," ","{"," ","t","i","t","l","e","(","\"","b","\"",")"," ","}"," ","h","o","m","e"," ","{"," ","}">> }

ParseContexts ==
  { <<>>,
    <<"h","o","m","e"," ","{">>,
    <<"h","o","m","e"," ","{"," ","b","o","x","(",")"," ","{">>,
    <<"h","o","m","e"," ","{"," ","b","o","x","(",")"," ","{"," ","i","f"," ","(","x",")"," ","{">>,
    <<"h","o","m","e"," ","{"," ","b","(",")"," ","{"," ","o","n","C","l","i","c","k"," ","{">>,
    <<"h","o","m","e"," ","{"," ","b","(",")"," ","{"," ","o","n","C","l","i","c","k"," ","{"," ","g","o","(">>,
    <<"f","(",")"," ","{">> }

BodyTokens ==
  { Tok("IDENTIFIER", <<"a">>), Tok("STRING", <<"s">>), Tok("NUMBER", <<"1">>),
    Tok("SYMBOL", <<"(">>), Tok("SYMBOL", <<")">>), Tok("SYMBOL", <<"}">>),
    Tok("SYMBOL", <<";">>), Tok("SYMBOL", <<"[">>) }

\* the tokens of a text without the EOF token
TokensOf(text) == LET toks == tokenize(text) IN SubSeq(toks, 1, Len(toks) - 1)

\* expressions as the value of a global variable, `x = a op b op c;`: every
\* sequence of up to MaxOperators operators between the operands a, b, c, ...
\* in which the `?` and `:` of the ternaries match
ExpressionOperators ==
  { <<"=","=">>, <<"!","=">>, <<"<">>, <<">">>, <<"<","=">>, <<">","=">>, <<"+">>, <<"-">>, <<"*">>, <<"/">>, <<"%">>, <<"?">>, <<":">> }

OperandNames == <<"a","b","c","d","e","f","g","h">>

RECURSIVE ExpressionTail(_, _)
ExpressionTail(ops, i) ==
  IF i > Len(ops) THEN <<";">>
  ELSE <<" ">> \o ops[i] \o <<" ", OperandNames[i + 1]>> \o ExpressionTail(ops, i + 1)

ExpressionText(ops) == <<"x"," ","="," ","a">> \o ExpressionTail(ops, 1)

\* every `:` of ops closes a `?` before it, and every `?` is closed
Closed(ops) ==
  /\ \A n \in DOMAIN ops :
       Cardinality({ i \in 1..n : ops[i] = <<":">> }) <= Cardinality({ i \in 1..n : ops[i] = <<"?">> })
  /\ Cardinality({ i \in DOMAIN ops : ops[i] = <<":">> })
       = Cardinality({ i \in DOMAIN ops : ops[i] = <<"?">> })

\* single words as the value of a global variable, `x = word;`
ExpressionWords ==
  { <<"#","f","f","f">>, <<"#","1","2","3">>, <<"#","a","1","b","2","c","3">>, <<"r","e","d">>, <<"R","e","d">>, <<"g","o","l","d">>, <<"t","o","p">>, <<"b","o","t","t","o","m">>, <<"l","e","f","t">>,
    <<"r","i","g","h","t">>, <<"c","e","n","t","e","r">>, <<"a">>, <<"r","e","d","x">>, <<"t","o","p","x">>, <<"f","f","f">>, <<"w","i","d","t","h">> }

WordText(word) == <<"x"," ","="," ">> \o word \o <<";">>

\* element calls on a page, `home { name(argument) body }`
CallNames ==
  { <<"i","m","a","g","e">>, <<"i","n","p","u","t">>, <<"t","e","x","t">>, <<"t","i","t","l","e">>, <<"I","m","a","g","e">>, <<"i","n","p","u","t","s">>, <<"s","r","c">>, <<"b","u","t","t","o","n">>, <<"i","f">> }

CallArguments == { <<>>, <<"\"","a","\"">>, <<"\"","\"">>, <<"\"","a","\""," ","+"," ","\"","b","\"">> }

CallBodies == { <<>>, <<" ","{"," ","}">>, <<" ","{"," ","b","o","l","d",";"," ","}">>, <<" ","{"," ","c","o","l","o","r",":"," ","r","e","d",";"," ","a","l","t",":"," ","\"","c","\"",";"," ","}">> }

CallText(name, argument, body) ==
  <<"h","o","m","e"," ","{"," ">> \o name \o <<"(">> \o argument \o <<")">> \o body \o <<" ","}">>

ParseInputs ==
  { tokenize(text) : text \in ParseCorpus }
    \cup { context \o body \o <<EOFToken>> :
             context \in { TokensOf(text) : text \in ParseContexts },
             body \in Texts(BodyTokens, MaxTokens) }

ParseInit ==
  /\ \/ ptokens \in ParseInputs
     \/ \E ops \in Texts(ExpressionOperators, MaxOperators) :
          Closed(ops) /\ ptokens = tokenize(ExpressionText(ops))
     \/ \E word \in ExpressionWords : ptokens = tokenize(WordText(word))
     \/ \E name \in CallNames, argument \in CallArguments, body \in CallBodies :
          ptokens = tokenize(CallText(name, argument, body))
  /\ ppos = 0
  /\ past = EmptyProgram
  /\ pstat = "run"
  /\ perr = NoError
  /\ NotParIdle

\* the branch the next iteration takes
ParseBranch == Dispatch(ptokens, skipWhitespaceTokens(ptokens, ppos))

\* one iteration of the loop of parse(): it ends with the cursor and the Program
\* moved on, or parse() ends with it (an exception, or a loop that does not end)
ParseIterate ==
  /\ pstat = "run"
  /\ ~isAtEnd(ptokens, ppos)
  /\ LET r == parseStep(ptokens, ppos, past)
     IN  /\ ppos' = r.pos
         /\ past' = r.ast
         /\ perr' = r.err
         /\ pstat' = (IF r.st = "ok" THEN "run" ELSE r.st)
  /\ UNCHANGED ptokens
  /\ UNCHANGED notPar

ParseMetadata ==
  /\ ParseBranch = "metadata"
  /\ ParseIterate

ParseMediaQuery ==
  /\ ParseBranch = "mediaQuery"
  /\ ParseIterate

ParseKeyHandler ==
  /\ ParseBranch = "keyHandler"
  /\ ParseIterate

ParseComponent ==
  /\ ParseBranch = "component"
  /\ ParseIterate

ParseWatcher ==
  /\ ParseBranch = "watcher"
  /\ ParseIterate

ParseInterval ==
  /\ ParseBranch = "interval"
  /\ ParseIterate

ParseState ==
  /\ ParseBranch = "state"
  /\ ParseIterate

ParseFunction ==
  /\ ParseBranch = "function"
  /\ ParseIterate

ParsePage ==
  /\ ParseBranch = "page"
  /\ ParseIterate

ParseGlobalVariable ==
  /\ ParseBranch = "globalVariable"
  /\ ParseIterate

ParseIf ==
  /\ ParseBranch = "if"
  /\ ParseIterate

ParseFor ==
  /\ ParseBranch = "for"
  /\ ParseIterate

ParseSkip ==
  /\ ParseBranch = "skip"
  /\ ParseIterate

\* the loop is left and parse() returns the Program
ParseReturn ==
  /\ pstat = "run"
  /\ isAtEnd(ptokens, ppos)
  /\ pstat' = "returned"
  /\ UNCHANGED <<ptokens, ppos, past, perr>>
  /\ UNCHANGED notPar

ParseNext ==
  \/ ParseMetadata \/ ParseMediaQuery \/ ParseKeyHandler \/ ParseComponent
  \/ ParseWatcher \/ ParseInterval \/ ParseState \/ ParseFunction \/ ParsePage
  \/ ParseGlobalVariable \/ ParseIf \/ ParseFor \/ ParseSkip \/ ParseReturn

SpecParse == ParseInit /\ [][ParseNext]_vars

(***************************************************************************)
(* The code generator, PSLCompiler: the traversal of generatePages(),       *)
(* generateElement() and generateForLoop() and the identifiers it           *)
(* allocates. The document is kept as the sequence of its tags that carry   *)
(* a page name or an identifier; the other attributes and the texts are     *)
(* left out. A tag's path is its place in the tree of containers: the page  *)
(* number, then a slot per level; the child number j of a parent has slot   *)
(* 2j and the else block of the conditional in that place has slot 2j + 1.  *)
(***************************************************************************)
\* the Program parse() returns for a source text
ProgramOf(text) == parse(tokenize(text)).ast

Tag(tag, name, id, active, path) ==
  [tag |-> tag, name |-> name, id |-> id, active |-> active, path |-> path]

\* a node that waits for its visit; id is the identifier allocated for it before
\* the visit, or -1
Item(kind, node, path, id) == [kind |-> kind, node |-> node, path |-> path, id |-> id]

\* the items of a list of nodes under the container at path
Items(kind, nodes, path) ==
  [j \in DOMAIN nodes |-> Item(kind, nodes[j], Append(path, 2 * j), -1)]

\* class="page ${pageName === pageNames[0] ? 'active' : ''}"
activeClass_All(pageName, pageNames) == "active"

activeClass(pageName, pageNames) == IF pageName = pageNames[1] THEN "active" ELSE ""

\* child.elseChildren && child.elseChildren.length > 0
hasElseBlock(child) == child.hasElse /\ Len(child.elseChildren) > 0

\* the last slot of a path moved to the else block's
elsePath(path) == [path EXCEPT ![Len(path)] = @ + 1]

\* new PSLCompiler(ast) for the Program of one of these texts
CompileCorpus ==
  { <<>>,
    <<"h","o","m","e"," ","{"," ","t","i","t","l","e","(","\"","H","i","\"",")"," ","}">>,
    <<"h","o","m","e"," ","{"," ","t","i","t","l","e","(","\"","H","i","\"",")"," ","}"," ","a","b","o","u","t"," ","{"," ","t","e","x","t","(","\"","A","\"",")"," ","}">>,
    <<"a"," ","{"," ","x","(",")"," ","}"," ","b"," ","{"," ","y","(",")"," ","}"," ","c"," ","{"," ","z","(",")"," ","}">>,
    <<"a"," ","{"," ","x","(",")"," ","}"," ","b"," ","{"," ","y","(",")"," ","}"," ","a"," ","{"," ","z","(",")"," ","w","(",")"," ","}">>,
    <<"_","_","p","r","o","t","o","_","_"," ","{"," ","x","(",")"," ","}"," ","h","o","m","e"," ","{"," ","y","(",")"," ","}">>,
    <<"h","o","m","e"," ","{"," ","b","o","x","(",")"," ","{"," ","t","e","x","t","(","\"","a","\"",")"," ","t","e","x","t","(","\"","b","\"",")"," ","}"," ","f","o","o","t","(",")"," ","}">>,
    <<"h","o","m","e"," ","{"," ","b","o","x","(",")"," ","{"," ","b","o","x","(",")"," ","{"," ","t","(",")"," ","}"," ","u","(",")"," ","}"," ","f","o","o","t","(",")"," ","}">>,
    <<"h","o","m","e"," ","{"," ","b","o","x","(",")"," ","{"," ","i","f"," ","(","x",")"," ","{"," ","t","(",")"," ","}"," ","}"," ","u","(",")"," ","}">>,
    <<"h","o","m","e"," ","{"," ","b","o","x","(",")"," ","{"," ","i","f"," ","(","x",")"," ","{"," ","t","(",")"," ","}"," ","e","l","s","e"," ","{"," ","u","(",")"," ","}"," ","v","(",")"," ","}"," ","}">>,
    <<"h","o","m","e"," ","{"," ","b","o","x","(",")"," ","{"," ","i","f"," ","(","x",")"," ","{"," ","}"," ","e","l","s","e"," ","{"," ","}"," ","v","(",")"," ","}"," ","}">>,
    <<"h","o","m","e"," ","{"," ","b","o","x","(",")"," ","{"," ","i","f"," ","(","x",")"," ","{"," ","f","o","r"," ","(","i"," ","i","n"," ","x","s",")"," ","{"," ","t","(",")"," ","}"," ","}"," ","e","l","s","e"," ","{"," ","u","(",")"," ","}"," ","}"," ","}">>,
    <<"h","o","m","e"," ","{"," ","f","o","r"," ","(","i"," ","i","n"," ","x","s",")"," ","{"," ","t","(",")"," ","u","(",")"," ","}"," ","b","o","x","(",")"," ","}">>,
    <<"h","o","m","e"," ","{"," ","b","o","x","(",")"," ","{"," ","f","o","r"," ","(","i"," ","i","n"," ","x","s",")"," ","{"," ","t","(",")"," ","}"," ","u","(",")"," ","}"," ","}">>,
    <<"h","o","m","e"," ","{"," ","o","n","S","w","i","p","e","L","e","f","t"," ","{"," ","g","o","(",")"," ","}"," ","t","i","t","l","e","(",")"," ","}"," ","a","b","o","u","t"," ","{"," ","b","o","x","(",")"," ","{"," ","i","f"," ","(","x",")"," ","{"," ","t","(",")"," ","}"," ","e","l","s","e"," ","{"," ","u","(",")"," ","}"," ","}"," ","}">> }

CompileInit ==
  /\ \E text \in CompileCorpus : cast = ProgramOf(text)
  /\ cid = 0
  /\ cstack = <<>>
  /\ cout = <<>>
  /\ cids = <<>>
  /\ cbase = 0
  /\ cfirst = <<>>
  /\ cruns = 0
  /\ cstat = "new"
  /\ NotCmpIdle

\* compile(): generateHTML() calls generatePages(), which visits the pages in the
\* order of Object.keys(this.ast.pages)
CompileCall ==
  /\ cstat \in {"new", "done"}
  /\ cruns < MaxCompiles
  /\ cstack' = [i \in DOMAIN cast.pages |-> Item("page", cast.pages[i], <<i>>, -1)]
  /\ cout' = <<>>
  /\ cids' = <<>>
  /\ cbase' = cid
  /\ cfirst' = IF cruns = 1 THEN cout ELSE cfirst
  /\ cruns' = cruns + 1
  /\ cstat' = "run"
  /\ UNCHANGED <<cast, cid>>
  /\ UNCHANGED notCmp

\* the allocation with the counter left as it is
Visit_SameId(tags, ids, items) ==
  /\ cout' = cout \o tags
  /\ cids' = cids \o ids
  /\ cid' = cid
  /\ cstack' = items \o Tail(cstack)
  /\ UNCHANGED <<cast, cbase, cfirst, cruns, cstat>>
  /\ UNCHANGED notCmp

\* the visit of the next node: the tags it adds, the identifiers it allocates and
\* the nodes it has to visit before the rest
Visit(tags, ids, items) ==
  /\ cout' = cout \o tags
  /\ cids' = cids \o ids
  /\ cid' = cid + Len(ids)
  /\ cstack' = items \o Tail(cstack)
  /\ UNCHANGED <<cast, cbase, cfirst, cruns, cstat>>
  /\ UNCHANGED notCmp

\* generatePages(): the container of one page
GenPage ==
  /\ cstat = "run" /\ cstack # <<>>
  /\ LET top == Head(cstack)
         pageName == top.node.key
     IN  /\ top.kind = "page"
         /\ Visit(<<Tag("page", pageName, -1,
                        activeClass(pageName, MapKeys(cast.pages)) = "active", top.path)>>,
                  <<>>,
                  Items("element", top.node.value.elements, top.path))

\* generateSwipeHandler(): a script, no identifier
GenSwipeHandler ==
  /\ cstat = "run" /\ cstack # <<>>
  /\ LET top == Head(cstack)
     IN  /\ top.kind = "element" /\ top.node.type = "SwipeHandler"
         /\ Visit(<<Tag("swipe", top.node.direction, -1, FALSE, top.path)>>, <<>>, <<>>)

\* generateElement() of an element: its identifier, then its children
GenElement ==
  /\ cstat = "run" /\ cstack # <<>>
  /\ LET top == Head(cstack)
         tag == Tag("el", top.node.name, cid, FALSE, top.path)
     IN  /\ top.kind \in {"element", "child"} /\ top.node.type = "Element"
         /\ Visit(<<tag>>, <<tag>>, Items("child", top.node.children, top.path))

\* generateElement(), a child of type 'if': the identifier of the if block and, when
\* there are else children, the identifier of the else block, then the if children
\* and then the else block
GenIfBlock ==
  /\ cstat = "run" /\ cstack # <<>>
  /\ LET top == Head(cstack)
         ifTag == Tag("if_block", <<>>, cid, FALSE, top.path)
         elseTag == Tag("else_block", <<>>, cid + 1, FALSE, elsePath(top.path))
     IN  /\ top.kind = "child" /\ top.node.type = "if"
         /\ Visit(<<ifTag>>,
                  IF hasElseBlock(top.node) THEN <<ifTag, elseTag>> ELSE <<ifTag>>,
                  Items("element", top.node.children, top.path)
                    \o (IF hasElseBlock(top.node)
                          THEN <<Item("else", top.node, elsePath(top.path), cid + 1)>>
                          ELSE <<>>))

\* generateElement(), the else block of a child of type 'if', then the else children
GenElseBlock ==
  /\ cstat = "run" /\ cstack # <<>>
  /\ LET top == Head(cstack)
     IN  /\ top.kind = "else"
         /\ Visit(<<Tag("else_block", <<>>, top.id, FALSE, top.path)>>, <<>>,
                  Items("element", top.node.elseChildren, top.path))

\* generateForLoop(): the identifier of the container, then the elements of the
\* template
GenForLoop ==
  /\ cstat = "run" /\ cstack # <<>>
  /\ LET top == Head(cstack)
         tag == Tag("for_loop", <<>>, cid, FALSE, top.path)
     IN  /\ top.kind \in {"element", "child"} /\ top.node.type = "ForLoop"
         /\ Visit(<<tag>>, <<tag>>, Items("element", top.node.elements, top.path))

\* compile() returns the document
CompileReturn ==
  /\ cstat = "run" /\ cstack = <<>>
  /\ cstat' = "done"
  /\ UNCHANGED <<cast, cid, cstack, cout, cids, cbase, cfirst, cruns>>
  /\ UNCHANGED notCmp

CompileNext ==
  \/ CompileCall \/ GenPage \/ GenSwipeHandler \/ GenElement \/ GenIfBlock
  \/ GenElseBlock \/ GenForLoop \/ CompileReturn

SpecCompile == CompileInit /\ [][CompileNext]_vars

(***************************************************************************)
(* Claims about the parser.                                                 *)
(***************************************************************************)

\* C2: parse() ends on every token sequence of the tokenizer, with the Program
\* returned or with the Error of expect: it is never in a loop that does not end
\* and never stopped by another exception.
C2_ParseTerminates == pstat \in {"run", "returned", "threw"}

\* C6: when a call of expect fails, parse() ends with an Error that names the
\* expected token, the token found and the cursor; the token named as found is the
\* one at the cursor, it is not the expected one, the cursor is where the check
\* failed (not after it), the Program is not returned, and nothing follows.
C6_ExpectAborts ==
  [][
      /\ (pstat = "run" /\ pstat' = "threw") =>
            LET found == peek(ptokens, ppos')
            IN  /\ perr'.position = ppos'
                /\ perr'.gotType = found.type
                /\ perr'.gotValue = found.value
                /\ \/ found.type # perr'.expectedType
                   \/ perr'.expectedValue # <<>> /\ found.value # perr'.expectedValue
                /\ past' = past
      /\ (pstat = "threw" => pstat' = "threw")
  ]_vars

\* home { title( }  stops at the } where ) is required
C6_Witness ==
  /\ pstat = "threw"
  /\ ptokens = tokenize(<<"h","o","m","e"," ","{"," ","t","i","t","l","e","("," ","}">>)
  /\ ppos = 4
  /\ perr = [expectedType |-> "SYMBOL", expectedValue |-> <<")">>, gotType |-> "SYMBOL",
             gotValue |-> <<"}">>, position |-> 4]

(***************************************************************************)
(* Claims about the code generator.                                         *)
(***************************************************************************)

\* C7: compile() keeps no state between calls: a second compile() on the same
\* PSLCompiler returns the document the first one returned, identifiers included.
C7_SameDocumentEachTime == (cstat = "done" /\ cruns >= 2) => cout = cfirst

IsProperPrefix(p, q) == Len(p) < Len(q) /\ SubSeq(q, 1, Len(p)) = p

\* p is in the subtree of an earlier sibling of a container that q is in or is
Earlier(p, q) ==
  \E i \in 1..Len(p) :
    /\ i <= Len(q)
    /\ SubSeq(p, 1, i - 1) = SubSeq(q, 1, i - 1)
    /\ p[i] < q[i]

InIfBlockOf(a, b) ==
  /\ b.tag = "else_block"
  /\ IsProperPrefix([b.path EXCEPT ![Len(b.path)] = @ - 1], a.path)

PageTags == SelectSeq(cout, LAMBDA t : t.tag = "page")

\* C9: the document has one container per page of the Program, in the order of
\* declaration; the first one carries the active marker and no other does.
C9_FirstPageActive ==
  /\ Len(PageTags) <= Len(cast.pages)
  /\ \A i \in DOMAIN PageTags :
       /\ PageTags[i].name = cast.pages[i].key
       /\ PageTags[i].active <=> i = 1
  /\ cstat = "done" => Len(PageTags) = Len(cast.pages)
  /\ (cstat = "done" /\ cast.pages # <<>>) =>
       Cardinality({i \in DOMAIN PageTags : PageTags[i].active}) = 1

\* the pages a, b, c
C9_Witness ==
  /\ cstat = "done"
  /\ [i \in DOMAIN PageTags |-> PageTags[i].name] = <<<<"a">>, <<"b">>, <<"c">>>>
  /\ PageTags[1].active /\ ~PageTags[2].active /\ ~PageTags[3].active

(***************************************************************************)
(* The page switching of the emitted document: the statements actionToJS()  *)
(* compiles for page.hide and page.show, and window.showPage(name). The     *)
(* document is kept as its page containers, each with its name (data-page), *)
(* its active marker (class active) and its inline display ("" when none).  *)
(***************************************************************************)
\* key.split('.')
RECURSIVE splitFrom(_, _, _)
splitFrom(key, i, part) ==
  IF i > Len(key) THEN <<part>>
  ELSE IF key[i] = "." THEN <<part>> \o splitFrom(key, i + 1, <<>>)
  ELSE splitFrom(key, i + 1, Append(part, key[i]))

split(key) == splitFrom(key, 1, <<>>)

includes(key, c) == \E i \in DOMAIN key : key[i] = c

\* the names every object has from Object.prototype: ast.pages is an object
\* literal, so ast.pages[name] is a function or an object for them
ObjectPrototypeNames ==
  { <<"c","o","n","s","t","r","u","c","t","o","r">>, <<"t","o","S","t","r","i","n","g">>, <<"t","o","L","o","c","a","l","e","S","t","r","i","n","g">>, <<"v","a","l","u","e","O","f">>, <<"h","a","s","O","w","n","P","r","o","p","e","r","t","y">>,
    <<"i","s","P","r","o","t","o","t","y","p","e","O","f">>, <<"p","r","o","p","e","r","t","y","I","s","E","n","u","m","e","r","a","b","l","e">>, <<"_","_","p","r","o","t","o","_","_">>, <<"_","_","d","e","f","i","n","e","G","e","t","t","e","r","_","_">>,
    <<"_","_","d","e","f","i","n","e","S","e","t","t","e","r","_","_">>, <<"_","_","l","o","o","k","u","p","G","e","t","t","e","r","_","_">>, <<"_","_","l","o","o","k","u","p","S","e","t","t","e","r","_","_">> }

\* this.ast.pages && this.ast.pages[elemName]
isPage(ast, elemName) == MapHas(ast.pages, elemName) \/ elemName \in ObjectPrototypeNames

\* the statement actionToJS() emits for an action, as far as pages are concerned
actionToJS(ast, action) ==
  IF action.type = "assignment"
    THEN IF includes(action.key, ".")
           THEN LET elemName == split(action.key)[1]
                    prop == split(action.key)[2]
                IN  IF isPage(ast, elemName) /\ prop = <<"h","i","d","e">> THEN [op |-> "pageHide", name |-> elemName]
                    ELSE IF isPage(ast, elemName) /\ prop = <<"s","h","o","w">> THEN [op |-> "pageShow", name |-> elemName]
                    ELSE [op |-> "element", name |-> elemName]
           ELSE [op |-> "variable", name |-> action.key]
  ELSE IF action.type = "functionCall"
    THEN IF action.name \in {<<"l","o","g">>, <<"a","l","e","r","t">>, <<"n","o","t","i","f","y">>, <<"s","a","v","e">>, <<"l","o","a","d">>}
           THEN [op |-> "builtin", name |-> action.name]
           ELSE [op |-> "window", name |-> action.name]
  ELSE [op |-> "other", name |-> <<>>]

\* document.querySelector('[data-page="name"]'): the first one, 0 for null
querySelector(doc, name) ==
  IF \E i \in DOMAIN doc : doc[i].name = name
    THEN CHOOSE i \in DOMAIN doc : doc[i].name = name /\ \A j \in 1..(i - 1) : doc[j].name # name
    ELSE 0

\* document.querySelectorAll('[data-page]').forEach(p => p.classList.remove('active'))
removeActive(doc) == [i \in DOMAIN doc |-> [doc[i] EXCEPT !.active = FALSE]]

pageHide(doc, name) ==
  LET pageEl == querySelector(doc, name)
  IN  IF pageEl # 0
        THEN [doc EXCEPT ![pageEl] = [@ EXCEPT !.active = FALSE, !.display = "none"]]
        ELSE doc

pageShow(doc, name) ==
  LET pageEl == querySelector(doc, name)
  IN  IF pageEl # 0
        THEN [removeActive(doc) EXCEPT ![pageEl] = [@ EXCEPT !.active = TRUE, !.display = "block"]]
        ELSE removeActive(doc)

showPage(doc, name) ==
  LET p == querySelector(doc, name)
  IN  IF p # 0
        THEN [removeActive(doc) EXCEPT ![p] = [@ EXCEPT !.active = TRUE]]
        ELSE removeActive(doc)

\* the page containers generatePages() writes
pageContainers(ast) ==
  [i \in DOMAIN ast.pages |->
     [name |-> ast.pages[i].key,
      active |-> activeClass(ast.pages[i].key, MapKeys(ast.pages)) = "active",
      display |-> ""]]

\* the documents are those of these texts; the names used by the statements
RunCorpus ==
  { <<>>, <<"h","o","m","e"," ","{"," ","}">>, <<"h","o","m","e"," ","{"," ","}"," ","a","b","o","u","t"," ","{"," ","}">>, <<"a","b","o","u","t"," ","{"," ","}"," ","h","o","m","e"," ","{"," ","}">>,
    <<"h","o","m","e"," ","{"," ","}"," ","a","b","o","u","t"," ","{"," ","}"," ","h","e","l","p"," ","{"," ","}">> }

RunNames == { <<"h","o","m","e">>, <<"a","b","o","u","t">>, <<"h","e","l","p">> }

RunInit ==
  /\ \E text \in RunCorpus : rast = ProgramOf(text)
  /\ rdoc = pageContainers(rast)
  /\ rlast = ""
  /\ rstat = "run"
  /\ NotRunIdle

\* the document runs the statement compiled for an action
Run(action, op, doc) ==
  /\ rstat = "run"
  /\ actionToJS(rast, action).op = op
  /\ rdoc' = doc
  /\ rlast' = op
  /\ UNCHANGED <<rast, rstat>>
  /\ UNCHANGED notRun

\* name.hide in a handler, name a page
RunPageHide ==
  \E name \in RunNames :
    Run(Assignment(name \o <<".","h","i","d","e">>, True), "pageHide", pageHide(rdoc, name))

\* name.show in a handler, name a page
RunPageShow ==
  \E name \in RunNames :
    Run(Assignment(name \o <<".","s","h","o","w">>, True), "pageShow", pageShow(rdoc, name))

\* name.hide or name.show in a handler, name not a page: a statement on
\* window.psl_elements[name]
RunElement ==
  \E name \in RunNames, prop \in {<<".","h","i","d","e">>, <<".","s","h","o","w">>} :
    Run(Assignment(name \o prop, True), "element", rdoc)

\* showPage("name") in a handler: window.showPage("name")
RunShowPage ==
  \E name \in RunNames :
    LET action == [type |-> "functionCall", name |-> <<"s","h","o","w","P","a","g","e">>,
                   args |-> <<[type |-> "string", value |-> name]>>]
    IN  /\ actionToJS(rast, action).name = <<"s","h","o","w","P","a","g","e">>
        /\ Run(action, "window", showPage(rdoc, action.args[1].value))

RunNext == RunPageHide \/ RunPageShow \/ RunElement \/ RunShowPage

SpecRun == RunInit /\ [][RunNext]_vars

(***************************************************************************)
(* Claims about the emitted document.                                       *)
(***************************************************************************)

\* C10: at every moment exactly one page container of a document that has pages
\* carries the active marker, whatever page statements it has run.
C10_OneActivePage ==
  (rstat = "run" /\ rdoc # <<>>) => Cardinality({i \in DOMAIN rdoc : rdoc[i].active}) = 1

(***************************************************************************)
(* The attributes and the style of an element: valueToString(),             *)
(* getStyleValue() and the loops of generateElement() over the entries of   *)
(* el.props. A style declaration is a pair of texts, property and value.    *)
(***************************************************************************)
\* String.prototype.trim
RECURSIVE trimStart(_)
trimStart(s) == IF s # <<>> /\ Head(s) \in Whitespace THEN trimStart(Tail(s)) ELSE s

RECURSIVE trimEnd(_)
trimEnd(s) ==
  IF s # <<>> /\ s[Len(s)] \in Whitespace THEN trimEnd(SubSeq(s, 1, Len(s) - 1)) ELSE s

trim(s) == trimEnd(trimStart(s))

endsWith(s, suffix) ==
  Len(suffix) <= Len(s) /\ SubSeq(s, Len(s) - Len(suffix) + 1, Len(s)) = suffix

\* s.split(sep), sep one character
RECURSIVE splitAt(_, _, _, _)
splitAt(s, sep, i, part) ==
  IF i > Len(s) THEN <<part>>
  ELSE IF s[i] = sep THEN <<part>> \o splitAt(s, sep, i + 1, <<>>)
  ELSE splitAt(s, sep, i + 1, Append(part, s[i]))

\* parts.join(sep)
RECURSIVE join(_, _)
join(parts, sep) ==
  IF parts = <<>> THEN <<>>
  ELSE IF Len(parts) = 1 THEN parts[1]
  ELSE parts[1] \o sep \o join(Tail(parts), sep)

\* the texts of the entries of an object, `${k}: ${text of v}`
RECURSIVE valueToString(_)
valueToString(value) ==
  IF value.type = "string" THEN value.value
  ELSE IF value.type = "number" THEN value.value
  ELSE IF value.type = "boolean" THEN (IF value.value THEN <<"t","r","u","e">> ELSE <<"f","a","l","s","e">>)
  ELSE IF value.type = "variable" THEN value.value
  ELSE IF value.type = "array"
    THEN <<"[">> \o join([i \in DOMAIN value.elements |-> valueToString(value.elements[i])], <<","," ">>)
         \o <<"]">>
  ELSE IF value.type = "object"
    THEN <<"{">> \o join([i \in DOMAIN value.properties |->
                        value.properties[i].key \o <<":"," ">>
                          \o valueToString(value.properties[i].value)], <<","," ">>)
         \o <<"}">>
  ELSE <<>>

\* the keys whose value getStyleValue() gives a unit
unitKeys ==
  { <<"w","i","d","t","h">>, <<"h","e","i","g","h","t">>, <<"s","i","z","e">>, <<"b","o","r","d","e","r","-","s","i","z","e">>, <<"p","a","d","d","i","n","g">>, <<"m","a","r","g","i","n">>, <<"g","a","p">>, <<"r","a","d","i","u","s">> }

\* the units of the first pattern of getStyleValue()
styleUnits ==
  { <<"p","x">>, <<"v","w">>, <<"v","h">>, <<"%">>, <<"e","m">>, <<"r","e","m">>, <<"v","m","i","n">>, <<"v","m","a","x">>, <<"c","m">>, <<"m","m">>, <<"i","n">>,
    <<"p","t">>, <<"p","c">> }

\* s ends with a match of \d+\.?\d*
endsWithNumber(s) ==
  /\ s # <<>>
  /\ \/ s[Len(s)] \in Digits
     \/ Len(s) >= 2 /\ s[Len(s)] = "." /\ s[Len(s) - 1] \in Digits

\* /\d+\.?\d*(px|vw|vh|%|em|rem|vmin|vmax|cm|mm|in|pt|pc)\s*$/i.test(s), s trimmed
hasStyleUnit(s) ==
  \E unit \in styleUnits :
    /\ endsWith(toLowerCase(s), unit)
    /\ endsWithNumber(SubSeq(s, 1, Len(s) - Len(unit)))

\* /^\d+\.?\d*$/.test(s)
isPlainNumber(s) ==
  /\ s # <<>>
  /\ s[1] \in Digits
  /\ \A i \in DOMAIN s : s[i] \in Digits \cup {"."}
  /\ Cardinality({i \in DOMAIN s : s[i] = "."}) <= 1

getStyleValue(key, strValue) ==
  IF key \in unitKeys
    THEN LET trimmed == trim(strValue)
         IN  IF hasStyleUnit(trimmed) \/ includes(trimmed, "%") THEN trimmed
             ELSE IF isPlainNumber(trimmed) THEN trimmed \o <<"p","x">>
             ELSE trimmed
    ELSE strValue

\* !value.value
notValue(value) ==
  IF value.type \in {"string", "number", "variable"} THEN value.value = <<>>
  ELSE IF value.type = "boolean" THEN ~value.value
  ELSE TRUE

\* the test of the values true and 1 alone
isSet_TrueOnly(value) == valueToString(value) \in {<<"t","r","u","e">>, <<"1">>}

\* strValue === 'true' || strValue === '1' || !value.value
isSet(value) == valueToString(value) \in {<<"t","r","u","e">>, <<"1">>} \/ notValue(value)

\* what the first loop of generateElement() over el.props finds, entry by entry
RECURSIVE positioning(_, _, _)
positioning(props, i, acc) ==
  IF i > Len(props) THEN acc
  ELSE
    LET key == props[i].key
        value == props[i].value
        wrap(justify, align) ==
          IF acc.hasBasePositioning THEN acc
          ELSE [acc EXCEPT !.needsWrapper = TRUE, !.justifyContent = justify,
                           !.alignItems = IF align = <<>> THEN @ ELSE align]
    IN  positioning(props, i + 1,
          IF key = <<"b","a","s","e">>
            THEN [acc EXCEPT !.hasBasePositioning = TRUE, !.basePosition = valueToString(value)]
          ELSE IF key = <<"f","i","x","e","d">> THEN [acc EXCEPT !.isFixed = isSet(value)]
          ELSE IF key = <<"c","e","n","t","e","r">>
            THEN IF isSet(value)
                   THEN [wrap(<<"c","e","n","t","e","r">>, <<"c","e","n","t","e","r">>) EXCEPT !.horizontalAlign = <<"c","e","n","t","e","r">>]
                   ELSE acc
          ELSE IF key = <<"l","e","f","t">>
            THEN [wrap(<<"f","l","e","x","-","s","t","a","r","t">>, <<>>) EXCEPT !.horizontalAlign = <<"l","e","f","t">>]
          ELSE IF key = <<"r","i","g","h","t">>
            THEN [wrap(<<"f","l","e","x","-","e","n","d">>, <<>>) EXCEPT !.horizontalAlign = <<"r","i","g","h","t">>]
          ELSE acc)

noPositioning ==
  [hasBasePositioning |-> FALSE, basePosition |-> <<>>, horizontalAlign |-> <<>>,
   needsWrapper |-> FALSE, justifyContent |-> <<>>, alignItems |-> <<>>, isFixed |-> FALSE]

\* topPadding, rightPadding, bottomPadding, leftPadding of pagePadding.split(' ');
\* <<>> stands for undefined
paddingSides(pagePadding) ==
  LET parts == splitAt(pagePadding, " ", 1, <<>>)
      n == Len(parts)
  IN  IF n = 1 THEN [top |-> parts[1], right |-> parts[1], bottom |-> parts[1], left |-> parts[1]]
      ELSE IF n = 2 THEN [top |-> parts[1], right |-> parts[2], bottom |-> parts[1], left |-> parts[2]]
      ELSE IF n = 3 THEN [top |-> parts[1], right |-> parts[2], bottom |-> parts[3], left |-> parts[2]]
      ELSE IF n = 4 THEN [top |-> parts[1], right |-> parts[2], bottom |-> parts[3], left |-> parts[4]]
      ELSE [top |-> <<"u","n","d","e","f","i","n","e","d">>, right |-> <<"u","n","d","e","f","i","n","e","d">>, bottom |-> <<"u","n","d","e","f","i","n","e","d">>,
            left |-> <<"u","n","d","e","f","i","n","e","d">>]

Decl(property, value) == [property |-> property, value |-> value]

\* the declarations of the wrapper the element is put in, none without a wrapper
wrapperStyles(pos) ==
  IF pos.needsWrapper /\ ~pos.hasBasePositioning
    THEN <<Decl(<<"d","i","s","p","l","a","y">>, <<"f","l","e","x">>)>>
         \o (IF pos.justifyContent # <<>>
               THEN <<Decl(<<"j","u","s","t","i","f","y","-","c","o","n","t","e","n","t">>, pos.justifyContent)>> ELSE <<>>)
         \o (IF pos.alignItems # <<>>
               THEN <<Decl(<<"a","l","i","g","n","-","i","t","e","m","s">>, pos.alignItems)>> ELSE <<>>)
    ELSE <<>>

\* the declarations of the key base
baseStyles(strValue, pos, sides) ==
  <<Decl(<<"p","o","s","i","t","i","o","n">>, IF pos.isFixed THEN <<"f","i","x","e","d">> ELSE <<"a","b","s","o","l","u","t","e">>)>>
  \o (IF strValue \in {<<"b","o","t","t","o","m">>, <<"t","o","p">>}
        THEN <<Decl(strValue, IF strValue = <<"t","o","p">> THEN sides.top ELSE sides.bottom)>>
             \o (IF pos.horizontalAlign = <<>>
                   THEN <<Decl(<<"l","e","f","t">>, sides.left), Decl(<<"r","i","g","h","t">>, sides.right)>>
                   ELSE <<>>)
      ELSE IF strValue \in {<<"l","e","f","t">>, <<"r","i","g","h","t">>}
        THEN <<Decl(strValue, IF strValue = <<"l","e","f","t">> THEN sides.left ELSE sides.right),
               Decl(<<"t","o","p">>, sides.top), Decl(<<"b","o","t","t","o","m">>, sides.bottom)>>
      ELSE <<>>)
  \o (IF pos.horizontalAlign = <<"c","e","n","t","e","r">>
        THEN <<Decl(<<"l","e","f","t">>, <<"5","0","%">>), Decl(<<"t","r","a","n","s","f","o","r","m">>, <<"t","r","a","n","s","l","a","t","e","X","(","-","5","0","%",")">>)>>
      ELSE IF pos.horizontalAlign = <<"l","e","f","t">> THEN <<Decl(<<"l","e","f","t">>, sides.left)>>
      ELSE IF pos.horizontalAlign = <<"r","i","g","h","t">> THEN <<Decl(<<"r","i","g","h","t">>, sides.right)>>
      ELSE <<>>)

\* the CSS property of the keys whose value goes through getStyleValue()
unitProperty ==
  [k \in unitKeys |->
     IF k = <<"s","i","z","e">> THEN <<"f","o","n","t","-","s","i","z","e">>
     ELSE IF k = <<"r","a","d","i","u","s">> THEN <<"b","o","r","d","e","r","-","r","a","d","i","u","s">>
     ELSE IF k = <<"b","o","r","d","e","r","-","s","i","z","e">> THEN <<"b","o","r","d","e","r","-","w","i","d","t","h">>
     ELSE k]

\* the CSS property of the keys whose value is a color
colorKeys == { <<"b","o","r","d","e","r","-","c","o","l","o","r">>, <<"b","g">>, <<"c","o","l","o","r">> }

\* the keys that set a fixed declaration for some of their values
choiceKeys == { <<"l","a","y","o","u","t">>, <<"d","i","r","e","c","t","i","o","n">>, <<"w","r","a","p">>, <<"a","l","i","g","n">>, <<"j","u","s","t","i","f","y">>, <<"s","h","o","w">>, <<"h","i","d","e">> }

choiceStyles(key, strValue) ==
  LET one(property, value) == <<Decl(property, value)>>
  IN  IF key = <<"l","a","y","o","u","t">>
        THEN IF strValue \in {<<"f","l","e","x">>, <<"g","r","i","d">>} THEN one(<<"d","i","s","p","l","a","y">>, strValue) ELSE <<>>
      ELSE IF key = <<"d","i","r","e","c","t","i","o","n">>
        THEN IF strValue \in {<<"r","o","w">>, <<"c","o","l","u","m","n">>} THEN one(<<"f","l","e","x","-","d","i","r","e","c","t","i","o","n">>, strValue) ELSE <<>>
      ELSE IF key = <<"w","r","a","p">>
        THEN IF strValue \in {<<"t","r","u","e">>, <<"1">>} THEN one(<<"f","l","e","x","-","w","r","a","p">>, <<"w","r","a","p">>) ELSE <<>>
      ELSE IF key = <<"a","l","i","g","n">>
        THEN IF strValue = <<"c","e","n","t","e","r">> THEN one(<<"a","l","i","g","n","-","i","t","e","m","s">>, <<"c","e","n","t","e","r">>)
             ELSE IF strValue \in {<<"s","t","a","r","t">>, <<"e","n","d">>} THEN one(<<"a","l","i","g","n","-","i","t","e","m","s">>, <<"f","l","e","x","-">> \o strValue)
             ELSE <<>>
      ELSE IF key = <<"j","u","s","t","i","f","y">>
        THEN IF strValue = <<"c","e","n","t","e","r">> THEN one(<<"j","u","s","t","i","f","y","-","c","o","n","t","e","n","t">>, <<"c","e","n","t","e","r">>)
             ELSE IF strValue \in {<<"s","t","a","r","t">>, <<"e","n","d">>}
               THEN one(<<"j","u","s","t","i","f","y","-","c","o","n","t","e","n","t">>, <<"f","l","e","x","-">> \o strValue)
             ELSE IF strValue \in {<<"b","e","t","w","e","e","n">>, <<"a","r","o","u","n","d">>}
               THEN one(<<"j","u","s","t","i","f","y","-","c","o","n","t","e","n","t">>, <<"s","p","a","c","e","-">> \o strValue)
             ELSE <<>>
      ELSE IF key = <<"s","h","o","w">>
        THEN IF strValue \in {<<"f","a","l","s","e">>, <<"0">>} THEN one(<<"d","i","s","p","l","a","y">>, <<"n","o","n","e">>) ELSE <<>>
      ELSE IF key = <<"h","i","d","e">>
        THEN IF strValue \in {<<"t","r","u","e">>, <<"1">>} THEN one(<<"d","i","s","p","l","a","y">>, <<"n","o","n","e">>) ELSE <<>>
      ELSE <<>>

\* the keys that set one declaration with the text of the value
textKeys == { <<"a","n","i","m","a","t","e">>, <<"s","h","a","d","o","w">>, <<"b","l","u","r">>, <<"o","p","a","c","i","t","y">>, <<"f","o","n","t">> }

textStyles(key, strValue) ==
  IF key = <<"a","n","i","m","a","t","e">>
    THEN LET animValue == splitAt(strValue, " ", 1, <<>>)
             animDuration == IF Len(animValue) >= 2 /\ animValue[2] # <<>>
                               THEN animValue[2] ELSE <<"1","s">>
         IN  <<Decl(<<"a","n","i","m","a","t","i","o","n">>, animValue[1] \o <<" ">> \o animDuration)>>
  ELSE IF key = <<"s","h","a","d","o","w">> THEN <<Decl(<<"b","o","x","-","s","h","a","d","o","w">>, strValue)>>
  ELSE IF key = <<"b","l","u","r">>
    THEN <<Decl(<<"f","i","l","t","e","r">>, <<"b","l","u","r","(">> \o getStyleValue(<<"b","l","u","r">>, strValue) \o <<")">>)>>
  ELSE IF key = <<"o","p","a","c","i","t","y">> THEN <<Decl(<<"o","p","a","c","i","t","y">>, strValue)>>
  ELSE <<Decl(<<"f","o","n","t","-","f","a","m","i","l","y">>, strValue)>>

\* s.includes(word)
includesText(s, word) ==
  \E i \in 1..(Len(s) - Len(word) + 1) : SubSeq(s, i, i + Len(word) - 1) = word

colorStyles(key, strValue) ==
  IF key = <<"b","g">>
    THEN IF includesText(strValue, <<"g","r","a","d","i","e","n","t">>)
           THEN <<Decl(<<"b","a","c","k","g","r","o","u","n","d">>, strValue)>>
           ELSE <<Decl(<<"b","a","c","k","g","r","o","u","n","d","-","c","o","l","o","r">>, strValue)>>
    ELSE <<Decl(key, strValue)>>

unitStyles(key, strValue) ==
  <<Decl(unitProperty[key], getStyleValue(key, strValue))>>
  \o (IF key = <<"b","o","r","d","e","r","-","s","i","z","e">> THEN <<Decl(<<"b","o","r","d","e","r","-","s","t","y","l","e">>, <<"s","o","l","i","d">>)>> ELSE <<>>)

\* the keys that add an attribute to the tag
attributeKeys == { <<"s","r","c">>, <<"p","l","a","c","e","h","o","l","d","e","r">>, <<"d","r","a","g","g","a","b","l","e">> }

\* the keys the second loop passes over
passedKeys ==
  { <<"t","e","x","t">>, <<"v","a","r">>, <<"l","a","z","y">>, <<"f","i","x","e","d">>, <<"c","e","n","t","e","r">>, <<"l","e","f","t">>, <<"r","i","g","h","t">>, <<"t","o","p">>, <<"b","o","t","t","o","m">> }

\* the branch of the second loop of generateElement() for a key
styleBranch(key) ==
  IF key \in attributeKeys THEN "attribute"
  ELSE IF key \in passedKeys THEN "passed"
  ELSE IF key \in textKeys THEN "text"
  ELSE IF key \in choiceKeys THEN "choice"
  ELSE IF key = <<"b","a","s","e">> THEN "base"
  ELSE IF key \in unitKeys THEN "unit"
  ELSE IF key \in colorKeys THEN "color"
  ELSE "data"

\* `${property}: ${value}` of each declaration, joined by '; '
styleText(styles) ==
  join([i \in DOMAIN styles |-> styles[i].property \o <<":"," ">> \o styles[i].value], <<";"," ">>)

Attr(name, value) == [name |-> name, value |-> value]

\* the attributes the second loop adds for a key
attributes(key, strValue, props) ==
  IF key = <<"s","r","c">>
    THEN <<Attr(<<"s","r","c">>, strValue)>>
         \o (IF MapHas(props, <<"l","a","z","y">>) THEN <<Attr(<<"l","o","a","d","i","n","g">>, <<"l","a","z","y">>)>> ELSE <<>>)
  ELSE IF key = <<"p","l","a","c","e","h","o","l","d","e","r">> THEN <<Attr(<<"p","l","a","c","e","h","o","l","d","e","r">>, strValue)>>
  ELSE IF key = <<"d","r","a","g","g","a","b","l","e">>
    THEN IF strValue \in {<<"t","r","u","e">>, <<"1">>} THEN <<Attr(<<"d","r","a","g","g","a","b","l","e">>, <<"t","r","u","e">>)>> ELSE <<>>
  ELSE <<Attr(<<"d","a","t","a","-">> \o key, strValue)>>

\* the declarations the second loop adds for a key
styles(key, strValue, props, pagePadding) ==
  LET branch == styleBranch(key)
  IN  IF branch = "text" THEN textStyles(key, strValue)
      ELSE IF branch = "choice" THEN choiceStyles(key, strValue)
      ELSE IF branch = "base"
        THEN baseStyles(strValue, positioning(props, 1, noPositioning), paddingSides(pagePadding))
      ELSE IF branch = "unit" THEN unitStyles(key, strValue)
      ELSE IF branch = "color" THEN colorStyles(key, strValue)
      ELSE <<>>

(***************************************************************************)
(* generateElement() as a state machine over the entries of el.props, for   *)
(* the element box of the program  home { box() { body } }  (or of that     *)
(* program with a page padding). The bodies are those of StyleBodies and    *)
(* key: number;  for every key that takes a unit and every number token the *)
(* tokenizer gives for a text of up to MaxNumber characters.                *)
(***************************************************************************)
NumberAlphabet == {"1", ".", "%", "p", "x", "s"}

NumberTexts ==
  { text \in Texts(NumberAlphabet, MaxNumber) :
      LET toks == tokenize(text) IN Len(toks) = 2 /\ toks[1].type = "NUMBER" }

\* the keys that take a unit and that are identifiers
writableUnitKeys == { key \in unitKeys : \A i \in DOMAIN key : key[i] \in IdentChars }

NumberBodies == { key \o <<":"," ">> \o text \o <<";">> : key \in writableUnitKeys, text \in NumberTexts }

StyleBodies ==
  { <<>>,
    <<"b","a","s","e",":"," ","b","o","t","t","o","m",";"," ","f","i","x","e","d",":"," ","f","a","l","s","e",";">>,
    <<"f","i","x","e","d",":"," ","f","a","l","s","e",";"," ","b","a","s","e",":"," ","t","o","p",";">>,
    <<"c","e","n","t","e","r",":"," ","f","a","l","s","e",";">>,
    <<"c","e","n","t","e","r",":"," ","f","a","l","s","e",";"," ","b","a","s","e",":"," ","t","o","p",";">>,
    <<"b","a","s","e",":"," ","t","o","p",";"," ","c","e","n","t","e","r",":"," ","f","a","l","s","e",";">>,
    <<"b","a","s","e",":"," ","b","o","t","t","o","m",";"," ","f","i","x","e","d",":"," ","t","r","u","e",";"," ","c","e","n","t","e","r",":"," ","t","r","u","e",";">>,
    <<"f","i","x","e","d",":"," ","0",";"," ","b","a","s","e",":"," ","l","e","f","t",";">>,
    <<"c","e","n","t","e","r",";"," ","w","i","d","t","h",":"," ","1","0",";">>,
    <<"b","a","s","e",":"," ","t","o","p",";"," ","c","o","l","o","r",":"," ","r","e","d",";">>,
    <<"w","i","d","t","h",":"," ","1","0",";">>,
    <<"w","i","d","t","h",":"," ","1","0","0",";"," ","h","e","i","g","h","t",":"," ","5","0","%",";">>,
    <<"b","o","r","d","e","r","-","s","i","z","e",":"," ","2",";">>,
    <<"b","o","r","d","e","r","-","c","o","l","o","r",":"," ","r","e","d",";">>,
    <<"s","i","z","e",":"," ","2",";"," ","c","o","l","o","r",":"," ","r","e","d",";"," ","b","g",":"," ","b","l","u","e",";">>,
    <<"b","g",":"," ","\"","l","i","n","e","a","r","-","g","r","a","d","i","e","n","t","(","r","e","d",","," ","b","l","u","e",")","\"",";"," ","f","o","n","t",":"," ","\"","A","r","i","a","l","\"",";">>,
    <<"s","r","c",":"," ","\"","a",".","p","n","g","\"",";"," ","l","a","z","y",";"," ","p","l","a","c","e","h","o","l","d","e","r",":"," ","\"","p","\"",";"," ","d","r","a","g","g","a","b","l","e",":"," ","t","r","u","e",";"," ","t","i","t","l","e",":"," ","\"","t","\"",";">>,
    <<"v","a","r",":"," ","\"","m","y","B","o","x","\"",";"," ","h","i","d","e",":"," ","t","r","u","e",";"," ","s","h","o","w",":"," ","f","a","l","s","e",";">>,
    <<"l","a","y","o","u","t",":"," ","f","l","e","x",";"," ","d","i","r","e","c","t","i","o","n",":"," ","r","o","w",";"," ","w","r","a","p",":"," ","t","r","u","e",";"," ","a","l","i","g","n",":"," ","c","e","n","t","e","r",";"," ","j","u","s","t","i","f","y",":"," ","b","e","t","w","e","e","n",";">>,
    <<"a","n","i","m","a","t","e",":"," ","\"","s","p","i","n"," ","2","s","\"",";"," ","s","h","a","d","o","w",":"," ","\"","0"," ","0"," ","1","p","x","\"",";"," ","b","l","u","r",":"," ","2",";"," ","o","p","a","c","i","t","y",":"," ","0",".","5",";">>,
    <<"b","a","s","e",":"," ","b","o","t","t","o","m",";"," ","f","i","x","e","d",";">>,
    <<"c","e","n","t","e","r",";"," ","b","a","s","e",":"," ","t","o","p",";">>,
    <<"b","a","s","e",":"," ","l","e","f","t",";"," ","r","i","g","h","t",";">>,
    <<"l","e","f","t",";"," ","t","o","p",":"," ","1",";"," ","w","i","d","t","h",":"," ","\""," ","1","0"," ","\"",";">> }

StylePrefixes == { <<"h","o","m","e"," ","{"," ","b","o","x","(",")"," ","{"," ">>, <<"h","o","m","e"," ","{"," ","p","a","d","d","i","n","g",":"," ","\"","1","0","p","x"," ","2","0","p","x","\"",";"," ","b","o","x","(",")"," ","{"," ">> }

StyleInputs ==
  (StylePrefixes \X StyleBodies) \cup ({<<"h","o","m","e"," ","{"," ","b","o","x","(",")"," ","{"," ">>} \X NumberBodies)

\* pagePadding of generatePages()
pagePaddingOf(page) ==
  IF page.padding = NoElement THEN <<"2","0","p","x">>
  ELSE getStyleValue(<<"p","a","d","d","i","n","g">>, valueToString(page.padding))

StyleInit ==
  /\ \E input \in StyleInputs :
       LET page == ProgramOf(input[1] \o input[2] \o <<" ","}"," ","}">>).pages[1].value
       IN  /\ ssrc = input[2]
           /\ sprops = page.elements[1].props
           /\ spadding = pagePaddingOf(page)
           /\ swrapper = wrapperStyles(positioning(page.elements[1].props, 1, noPositioning))
  /\ snext = 0
  /\ shtml = <<>>
  /\ sstyles = <<>>
  /\ svar = <<>>
  /\ sstat = "loop"
  /\ NotStyIdle

\* the branch the second loop takes for its next entry
StyleBranch == IF snext < Len(sprops) THEN styleBranch(sprops[snext + 1].key) ELSE "end"

\* one iteration of the second loop
StyleEntry ==
  /\ sstat = "loop"
  /\ snext < Len(sprops)
  /\ LET key == sprops[snext + 1].key
         strValue == valueToString(sprops[snext + 1].value)
     IN  /\ shtml' = IF styleBranch(key) \in {"attribute", "data"}
                       THEN shtml \o attributes(key, strValue, sprops) ELSE shtml
         /\ sstyles' = sstyles \o styles(key, strValue, sprops, spadding)
         /\ svar' = IF key = <<"v","a","r">> THEN strValue ELSE svar
  /\ snext' = snext + 1
  /\ UNCHANGED <<ssrc, sprops, spadding, swrapper, sstat>>
  /\ UNCHANGED notSty

GenAttribute ==
  /\ StyleBranch = "attribute"
  /\ StyleEntry

GenPassed ==
  /\ StyleBranch = "passed"
  /\ StyleEntry

GenTextStyle ==
  /\ StyleBranch = "text"
  /\ StyleEntry

GenChoiceStyle ==
  /\ StyleBranch = "choice"
  /\ StyleEntry

GenBaseStyle ==
  /\ StyleBranch = "base"
  /\ StyleEntry

GenUnitStyle ==
  /\ StyleBranch = "unit"
  /\ StyleEntry

GenColorStyle ==
  /\ StyleBranch = "color"
  /\ StyleEntry

GenDataAttribute ==
  /\ StyleBranch = "data"
  /\ StyleEntry

\* after the loop: the attribute style, when there are declarations
GenStyleAttribute ==
  /\ sstat = "loop"
  /\ snext = Len(sprops)
  /\ shtml' = IF sstyles # <<>> THEN Append(shtml, Attr(<<"s","t","y","l","e">>, styleText(sstyles))) ELSE shtml
  /\ sstat' = "done"
  /\ UNCHANGED <<ssrc, sprops, spadding, snext, sstyles, svar, swrapper>>
  /\ UNCHANGED notSty

StyleNext ==
  \/ GenAttribute \/ GenPassed \/ GenTextStyle \/ GenChoiceStyle \/ GenBaseStyle
  \/ GenUnitStyle \/ GenColorStyle \/ GenDataAttribute \/ GenStyleAttribute

SpecStyle == StyleInit /\ [][StyleNext]_vars

(***************************************************************************)
(* Claims about the style of an element.                                    *)
(***************************************************************************)
\* the text of a number token ends with a unit
hasSuffix(number) == number[Len(number)] \notin Digits \cup {"."}

\* C11: for a key that takes a unit and every number token, the declaration has the
\* number with px appended when the number has no unit, and the number as it is
\* when it has one.
C11_UnitDefault ==
  (/\ sstat = "done"
   /\ Len(sprops) = 1
   /\ sprops[1].key \in unitKeys
   /\ sprops[1].value.type = "number")
  => LET number == sprops[1].value.value
     IN  sstyles = <<Decl(unitProperty[sprops[1].key],
                          IF hasSuffix(number) THEN number ELSE number \o <<"p","x">>)>>

HasDecl(property) == \E i \in DOMAIN sstyles : sstyles[i].property = property

\* C17: border-size: 2; in an element body gives the declaration border-width: 2px and
\* no font-size; border-color: red; gives the declaration border-color: red and no
\* color.
C17_BorderKeys ==
  /\ (sstat = "done" /\ ssrc = <<"b","o","r","d","e","r","-","s","i","z","e",":"," ","2",";">>) =>
       /\ \E i \in DOMAIN sstyles : sstyles[i] = Decl(<<"b","o","r","d","e","r","-","w","i","d","t","h">>, <<"2","p","x">>)
       /\ ~HasDecl(<<"f","o","n","t","-","s","i","z","e">>)
  /\ (sstat = "done" /\ ssrc = <<"b","o","r","d","e","r","-","c","o","l","o","r",":"," ","r","e","d",";">>) =>
       /\ \E i \in DOMAIN sstyles : sstyles[i] = Decl(<<"b","o","r","d","e","r","-","c","o","l","o","r">>, <<"r","e","d">>)
       /\ ~HasDecl(<<"c","o","l","o","r">>)

(***************************************************************************)
(* Claims about the top-level dispatch of parse().                          *)
(***************************************************************************)
TopLevelIf == tokenize(<<"i","f"," ","(","x",")"," ","{"," ","y"," ","="," ","1",";"," ","}">>)
TopLevelFor == tokenize(<<"f","o","r"," ","(","x"," ","i","n"," ","x","s",")"," ","{"," ","y"," ","="," ","1",";"," ","}">>)

\* C16: a bare top-level `if (cond) { ... }` or `for (x in xs) { ... }` is
\* recognized by the dispatch as a top-level statement: when parse() has
\* returned, it is the one entry of the Program's statement list, and the
\* function map, the page map and the global-variable map are empty.
C16_TopLevelStatement ==
  (ptokens \in {TopLevelIf, TopLevelFor} /\ pstat = "returned")
    => /\ Len(past.statements) = 1
       /\ past.functions = <<>>
       /\ past.pages = <<>>
       /\ past.globalVariables = <<>>

(***************************************************************************)
(* Claims about expressions: the Program parse() gives for `x = e;`.        *)
(***************************************************************************)
\* the words of ExpressionWords that look like a hex color, are a CSS color name
\* or a position keyword
LiteralWords ==
  { <<"#","f","f","f">>, <<"#","1","2","3">>, <<"#","a","1","b","2","c","3">>, <<"r","e","d">>, <<"R","e","d">>, <<"g","o","l","d">>, <<"t","o","p">>, <<"b","o","t","t","o","m">>, <<"l","e","f","t">>,
    <<"r","i","g","h","t">>, <<"c","e","n","t","e","r">> }

\* the Program whose only entry is the global variable x with this value
OnlyGlobal(value) == [EmptyProgram EXCEPT !.globalVariables = <<[key |-> <<"x">>, value |-> value]>>]

\* C18: in expression position a word that looks like a hex color, is a CSS
\* color name or a position keyword parses to a string literal with that text,
\* and every other plain identifier parses to a variable reference: parse() of
\* `x = word;` returns, and x is that node.
C18_LiteralWords ==
  \A word \in ExpressionWords :
    (ptokens = tokenize(WordText(word)) /\ pstat # "run")
      => /\ pstat = "returned"
         /\ past = OnlyGlobal([type |-> IF word \in LiteralWords THEN "string" ELSE "variable",
                               value |-> word])

\* the part of C18 about the words that are one identifier token
C18_IdentifierWords ==
  \A word \in { w \in ExpressionWords : w[1] # "#" } :
    (ptokens = tokenize(WordText(word)) /\ pstat # "run")
      => /\ pstat = "returned"
         /\ past = OnlyGlobal([type |-> IF word \in LiteralWords THEN "string" ELSE "variable",
                               value |-> word])

\* the tokens of e in the tokens of `x = e;`
ExpressionOf(toks) == SubSeq(toks, 3, Len(toks) - 2)

IsGlobalVariable(toks) ==
  /\ Len(toks) >= 5
  /\ toks[1] = Tok("IDENTIFIER", <<"x">>)
  /\ toks[2] = Tok("SYMBOL", <<"=">>)
  /\ toks[Len(toks) - 1] = Tok("SYMBOL", <<";">>)

IsOperand(tok) ==
  tok.type = "IDENTIFIER" /\ Len(tok.value) = 1 /\ tok.value[1] \in Range(OperandNames)

\* the level of an operator in the expression grammar, the ternary's being 0
LevelOf(op) ==
  CASE op \in { <<"?">>, <<":">> } -> 0
    [] op \in { <<"=","=">>, <<"!","=">> } -> 1
    [] op \in { <<"<">>, <<">">>, <<"<","=">>, <<">","=">> } -> 2
    [] op \in { <<"+">>, <<"-">> } -> 3
    [] op \in { <<"*">>, <<"/">>, <<"%">> } -> 4

Count(e, op, n) == Cardinality({ i \in 1..n : e[i].value = op })

\* operands and operators in turn, every `:` closing a `?` before it
WellFormed(e) ==
  /\ Len(e) % 2 = 1
  /\ \A i \in DOMAIN e :
       IF i % 2 = 1 THEN IsOperand(e[i]) ELSE e[i].value \in ExpressionOperators
  /\ \A n \in DOMAIN e : Count(e, <<":">>, n) <= Count(e, <<"?">>, n)
  /\ Count(e, <<":">>, Len(e)) = Count(e, <<"?">>, Len(e))

\* the reference tree of a well-formed expression: it is split at its first `?`
\* and the `:` that closes it, else at the last operator of the lowest level
RECURSIVE ReferenceTree(_)
ReferenceTree(e) ==
  IF Len(e) = 1 THEN [type |-> "variable", value |-> e[1].value]
  ELSE IF \E i \in DOMAIN e : e[i].value = <<"?">>
    THEN LET q == Least({ i \in DOMAIN e : e[i].value = <<"?">> })
             c == Least({ j \in (q + 1)..Len(e) :
                            /\ e[j].value = <<":">>
                            /\ Count(e, <<":">>, j - 1) = Count(e, <<"?">>, j - 1) - 1 })
         IN  [type |-> "ternary",
              condition |-> ReferenceTree(SubSeq(e, 1, q - 1)),
              trueExpr |-> ReferenceTree(SubSeq(e, q + 1, c - 1)),
              falseExpr |-> ReferenceTree(SubSeq(e, c + 1, Len(e)))]
    ELSE LET low == Least({ LevelOf(e[i].value) : i \in { j \in DOMAIN e : j % 2 = 0 } })
             k == CHOOSE i \in DOMAIN e :
                    /\ i % 2 = 0 /\ LevelOf(e[i].value) = low
                    /\ \A j \in DOMAIN e : (j % 2 = 0 /\ LevelOf(e[j].value) = low) => j <= i
         IN  BinaryExpression(e[k].value, ReferenceTree(SubSeq(e, 1, k - 1)),
                              ReferenceTree(SubSeq(e, k + 1, Len(e))))

\* C19: expression parsing follows the precedence ternary < equality <
\* relational < additive < multiplicative < primary, the binary operators of a
\* level grouping to the left: for every well-formed sequence of operands and
\* operators e, parse() of `x = e;` returns and x is the reference tree of e.
C19_Precedence ==
  (pstat # "run" /\ IsGlobalVariable(ptokens) /\ WellFormed(ExpressionOf(ptokens)))
    => /\ pstat = "returned"
       /\ past = OnlyGlobal(ReferenceTree(ExpressionOf(ptokens)))

Variable(name) == [type |-> "variable", value |-> name]

\* `a + b * c == d` has been parsed to ==( +(a, *(b, c)), d )
C19_Witness ==
  /\ ptokens = tokenize(<<"x"," ","="," ","a"," ","+"," ","b"," ","*"," ","c"," ","=","="," ","d",";">>)
  /\ pstat = "returned"
  /\ past = OnlyGlobal(BinaryExpression(<<"=","=">>,
              BinaryExpression(<<"+">>, Variable(<<"a">>),
                BinaryExpression(<<"*">>, Variable(<<"b">>), Variable(<<"c">>))),
              Variable(<<"d">>)))

(***************************************************************************)
(* The callbacks of the document: generateJavaScript() emits the watchers,  *)
(* the intervals and the keydown listener, then generatePages() the swipe   *)
(* listeners and, after the markup of each element, its event listeners.    *)
(* A callback is kept as its kind, its event, whether the function is       *)
(* emitted with `async`, and the actions of its body.                       *)
(***************************************************************************)
AwaitText == <<"a","w","a","i","t">>

\* the text valueToJSString() gives for a value includes word (the fixed texts
\* around the names and literals of the value do not)
RECURSIVE jsIncludes(_, _)
jsIncludes(value, word) ==
  CASE value.type \in {"string", "number", "variable"} -> includesText(value.value, word)
    [] value.type = "array" ->
         \E i \in DOMAIN value.elements : jsIncludes(value.elements[i], word)
    [] value.type = "object" ->
         \E i \in DOMAIN value.properties :
           \/ includesText(value.properties[i].key, word)
           \/ jsIncludes(value.properties[i].value, word)
    [] value.type = "dotNotation" ->
         includesText(value.object, word) \/ includesText(value.property, word)
    [] value.type = "binaryExpression" ->
         jsIncludes(value.left, word) \/ jsIncludes(value.right, word)
    [] value.type = "ternary" ->
         \/ jsIncludes(value.condition, word)
         \/ jsIncludes(value.trueExpr, word)
         \/ jsIncludes(value.falseExpr, word)
    [] OTHER -> FALSE

builtinCalls == { <<"l","o","g">>, <<"a","l","e","r","t">>, <<"n","o","t","i","f","y">>, <<"s","a","v","e">>, <<"l","o","a","d">> }

\* the text actionToJS() gives for an action includes word, for a word that is
\* in none of the fixed texts but that of a wait, `await new Promise(...)`
RECURSIVE actionIncludes(_, _, _)
actionIncludes(ast, action, word) ==
  CASE action.type = "assignment" ->
         IF includes(action.key, ".")
           THEN IF actionToJS(ast, action).op \in {"pageHide", "pageShow"}
                  THEN includesText(split(action.key)[1], word)
                  ELSE \/ includesText(split(action.key)[1], word)
                       \/ includesText(split(action.key)[2], word)
                       \/ jsIncludes(action.value, word)
           ELSE includesText(action.key, word) \/ jsIncludes(action.value, word)
    [] action.type = "functionCall" ->
         \/ \E i \in DOMAIN action.args : jsIncludes(action.args[i], word)
         \/ action.name \notin builtinCalls /\ includesText(action.name, word)
    [] action.type = "if" ->
         \/ jsIncludes(action.condition, word)
         \/ \E i \in DOMAIN action.body : actionIncludes(ast, action.body[i], word)
         \/ \E i \in DOMAIN action.elseBody : actionIncludes(ast, action.elseBody[i], word)
    [] action.type = "wait" -> word = AwaitText \/ jsIncludes(action.duration, word)
                               \/ \E i \in DOMAIN action.body :
                                    actionIncludes(ast, action.body[i], word)
    [] OTHER -> FALSE

\* actions.includes('await'), actions being the joined texts of the actions
isAsync(ast, actions) == \E i \in DOMAIN actions : actionIncludes(ast, actions[i], AwaitText)

Callback(kind, event, actions) == [kind |-> kind, event |-> event, actions |-> actions]

\* h.event.replace('on', '').toLowerCase(), the event being one of eventNames
eventName(event) == toLowerCase(SubSeq(event, 3, Len(event)))

\* the listeners generatePages() emits for a node, in the order of the document:
\* those of the children are in the markup, the element's own come after it; the
\* template of a for loop is kept in a string
RECURSIVE listenersOf(_)
listenersOf(node) ==
  CASE node.type = "SwipeHandler" -> <<Callback("swipe", node.direction, node.actions)>>
    [] node.type = "Element" ->
         join([j \in DOMAIN node.children |-> listenersOf(node.children[j])], <<>>)
         \o [k \in DOMAIN node.handlers |->
               Callback(IF eventName(node.handlers[k].event) = <<"d","r","o","p">> THEN "drop" ELSE "handler",
                        eventName(node.handlers[k].event), node.handlers[k].actions)]
    [] node.type = "if" ->
         join([j \in DOMAIN node.children |-> listenersOf(node.children[j])], <<>>)
         \o (IF hasElseBlock(node)
               THEN join([j \in DOMAIN node.elseChildren |-> listenersOf(node.elseChildren[j])],
                         <<>>)
               ELSE <<>>)
    [] OTHER -> <<>>

\* the callbacks of generateJavaScript(): one per watcher, one per interval, and
\* one keydown listener with the actions of every key handler
scriptCallbacks(ast) ==
  [i \in DOMAIN ast.watchers |->
     Callback("watcher", valueToString(ast.watchers[i].variable), ast.watchers[i].actions)]
  \o [i \in DOMAIN ast.intervals |-> Callback("interval", <<>>, ast.intervals[i].actions)]
  \o (IF Len(ast.keyHandlers) > 0
        THEN <<Callback("keydown", <<"k","e","y","d","o","w","n">>,
                        join([i \in DOMAIN ast.keyHandlers |-> ast.keyHandlers[i].actions], <<>>))>>
        ELSE <<>>)

pageCallbacks(ast) ==
  join([p \in DOMAIN ast.pages |->
          join([j \in DOMAIN ast.pages[p].value.elements |->
                  listenersOf(ast.pages[p].value.elements[j])], <<>>)], <<>>)

\* the bodies and the places of a callback in the programs whose callbacks are emitted
CallbackBodies ==
  { <<"l","o","g","(","1",")",";">>,
    <<"w","a","i","t","(","1","s",")"," ","{"," ","l","o","g","(","1",")",";"," ","}">>,
    <<"w","a","i","t","(","1","s",")",";">>,
    <<"i","f"," ","(","x",")"," ","{"," ","w","a","i","t","(","1","s",")",";"," ","}">>,
    <<"i","f"," ","(","x",")"," ","{"," ","y",":"," ","1",";"," ","}"," ","e","l","s","e"," ","{"," ","w","a","i","t","(","1","s",")"," ","{"," ","z",":"," ","2",";"," ","}"," ","}">>,
    <<"n",":"," ","1",";"," ","i","f"," ","(","x",")"," ","{"," ","i","f"," ","(","y",")"," ","{"," ","b",".","h","i","d","e",";"," ","w","a","i","t","(","2","s",")"," ","{"," ","c",".","s","h","o","w",";"," ","}"," ","}"," ","}">>,
    <<"l","o","g","(","\"","a","w","a","i","t","\"",")",";">>,
    <<"a","w","a","i","t","e","d",":"," ","1",";">>,
    <<"h","o","m","e",".","s","h","o","w",";">> }

CallbackPlaces ==
  { <<<<"w","a","t","c","h","(","n",")"," ","{"," ">>, <<" ","}">>>>,
    <<<<"e","v","e","r","y","(","1","s",")"," ","{"," ">>, <<" ","}">>>>,
    <<<<"o","n","K","e","y","(","\"","a","\"",")"," ","{"," ">>, <<" ","}">>>>,
    <<<<"h","o","m","e"," ","{"," ","o","n","K","e","y","(","\"","a","\"",")"," ","{"," ">>, <<" ","}"," ","}">>>>,
    <<<<"h","o","m","e"," ","{"," ","o","n","S","w","i","p","e","L","e","f","t"," ","{"," ">>, <<" ","}"," ","}">>>>,
    <<<<"h","o","m","e"," ","{"," ","b","(",")"," ","{"," ","o","n","C","l","i","c","k"," ","{"," ">>, <<" ","}"," ","}"," ","}">>>>,
    <<<<"h","o","m","e"," ","{"," ","b","(",")"," ","{"," ","o","n","D","r","o","p"," ","{"," ">>, <<" ","}"," ","}"," ","}">>>>,
    <<<<"h","o","m","e"," ","{"," ","b","(",")"," ","{"," ","c","(",")"," ","{"," ","o","n","H","o","v","e","r"," ","{"," ">>, <<" ","}"," ","}"," ","o","n","C","l","i","c","k"," ","{"," ","l","o","g","(","2",")",";"," ","}"," ","}"," ","}">>>>,
    <<<<"h","o","m","e"," ","{"," ","b","(",")"," ","{"," ","i","f"," ","(","x",")"," ","{"," ","c","(",")"," ","{"," ","o","n","C","l","i","c","k"," ","{"," ">>, <<" ","}"," ","}"," ","}"," ","e","l","s","e"," ","{"," ","d","(",")"," ","{"," ","o","n","D","r","o","p"," ","{"," ","w","a","i","t","(","1","s",")",";"," ","}"," ","}"," ","}"," ","}"," ","}">>>>,
    <<<<"w","a","t","c","h","(","n",")"," ","{"," ","l","o","g","(","1",")",";"," ","}"," ","e","v","e","r","y","(","2","s",")"," ","{"," ","w","a","i","t","(","1","s",")",";"," ","}"," ","h","o","m","e"," ","{"," ","o","n","S","w","i","p","e","U","p"," ","{"," ">>, <<" ","}"," ","t","(",")"," ","{"," ","o","n","B","l","u","r"," ","{"," ","w","a","i","t","(","1","s",")",";"," ","}"," ","}"," ","}">>>> }

CallbackCorpus == { place[1] \o body \o place[2] : place \in CallbackPlaces, body \in CallbackBodies }

EmitInit ==
  /\ \E text \in CallbackCorpus :
       /\ east = ProgramOf(text)
       /\ equeue = scriptCallbacks(east) \o pageCallbacks(east)
  /\ eout = <<>>
  /\ estat = "run"
  /\ NotEmtIdle

\* the next callback is written, as an async function or not
Emit(kind, async) ==
  /\ estat = "run" /\ equeue # <<>>
  /\ Head(equeue).kind = kind
  /\ eout' = Append(eout, [kind |-> kind, event |-> Head(equeue).event, async |-> async,
                           actions |-> Head(equeue).actions])
  /\ equeue' = Tail(equeue)
  /\ UNCHANGED <<east, estat>>
  /\ UNCHANGED notEmt

\* window.psl_watchers.push({variable: ..., callback: function() { actions }})
EmitWatcher ==
  /\ estat = "run" /\ equeue # <<>>
  /\ Emit("watcher", FALSE)

\* setInterval(function() { actions }, duration)
EmitInterval ==
  /\ estat = "run" /\ equeue # <<>>
  /\ Emit("interval", FALSE)

\* document.addEventListener('keydown', function(e) { ... })
EmitKeyHandlers ==
  /\ estat = "run" /\ equeue # <<>>
  /\ Emit("keydown", FALSE)

\* generateSwipeHandler(): window.addEventListener('psl-swipe-...', function() { actions })
EmitSwipeHandler ==
  /\ estat = "run" /\ equeue # <<>>
  /\ Emit("swipe", FALSE)

\* el.addEventListener('drop', ${isAsync ? 'async' : ''} function(e) { ... })
EmitDropHandler ==
  /\ estat = "run" /\ equeue # <<>>
  /\ Emit("drop", isAsync(east, Head(equeue).actions))

\* el.addEventListener(eventName, async function() { ... }) when isAsync, else function()
EmitEventHandler ==
  /\ estat = "run" /\ equeue # <<>>
  /\ Emit("handler", isAsync(east, Head(equeue).actions))

\* generateHTML() returns the document
EmitReturn ==
  /\ estat = "run" /\ equeue = <<>>
  /\ estat' = "returned"
  /\ UNCHANGED <<east, equeue, eout>>
  /\ UNCHANGED notEmt

EmitNext ==
  \/ EmitWatcher \/ EmitInterval \/ EmitKeyHandlers \/ EmitSwipeHandler
  \/ EmitDropHandler \/ EmitEventHandler \/ EmitReturn

SpecEmit == EmitInit /\ [][EmitNext]_vars

(***************************************************************************)
(* Claims about the callbacks.                                              *)
(***************************************************************************)
\* there is a wait among the actions, at any depth
RECURSIVE containsWait(_)
containsWait(actions) ==
  \E i \in DOMAIN actions :
    \/ actions[i].type = "wait"
    \/ actions[i].type = "if"
         /\ (containsWait(actions[i].body) \/ containsWait(actions[i].elseBody))

\* C20: every emitted callback whose body has a wait at any depth is emitted as
\* an async function: the element event handlers, drop included, and equally
\* the watcher, interval, keydown and swipe callbacks.
C20_WaitIsAsync ==
  \A i \in DOMAIN eout : containsWait(eout[i].actions) => eout[i].async

\* the part of C20 about the listeners of an element
C20_ElementHandlers ==
  \A i \in DOMAIN eout :
    (eout[i].kind \in {"handler", "drop"} /\ containsWait(eout[i].actions)) => eout[i].async

(***************************************************************************)
(* The document at run time. The head script makes window.psl_vars,         *)
(* psl_elements and psl_watchers empty; the markup follows, with the script *)
(* of each element (registry and listeners) after the element and the       *)
(* script of each conditional child after its containers; the script of     *)
(* generateJavaScript() comes last. A node is known by its path: the        *)
(* identifiers of one compilation are distinct, so getElementById finds     *)
(* the node the script was written for. Values are the JavaScript values    *)
(* of the literals, of the variables of the store and of == and !=.         *)
(***************************************************************************)
JSValue(t, b, s) == [t |-> t, b |-> b, s |-> s]
Undefined == JSValue("undefined", FALSE, <<>>)

\* the value of the expression valueToJSString() writes for a value
RECURSIVE evalJS(_, _)
evalJS(value, psl_vars) ==
  CASE value.type = "string" -> JSValue("string", FALSE, value.value)
    [] value.type = "number" -> JSValue("number", FALSE, value.value)
    [] value.type = "boolean" -> JSValue("boolean", value.value, <<>>)
    [] value.type = "variable" ->
         IF MapHas(psl_vars, value.value) THEN MapGet(psl_vars, value.value) ELSE Undefined
    [] value.type = "binaryExpression" /\ value.operator = <<"=","=">> ->
         JSValue("boolean", evalJS(value.left, psl_vars) = evalJS(value.right, psl_vars), <<>>)
    [] value.type = "binaryExpression" /\ value.operator = <<"!","=">> ->
         JSValue("boolean", evalJS(value.left, psl_vars) # evalJS(value.right, psl_vars), <<>>)
    [] OTHER -> Undefined

\* if (v)
truthy(v) ==
  CASE v.t = "boolean" -> v.b
    [] v.t = "number" -> v.s # <<"0">>
    [] v.t = "string" -> v.s # <<>>
    [] OTHER -> FALSE

\* el.textContent = v
textOf(v) ==
  CASE v.t = "boolean" -> (IF v.b THEN <<"t","r","u","e">> ELSE <<"f","a","l","s","e">>)
    [] v.t \in {"number", "string"} -> v.s
    [] OTHER -> UndefinedText

\* the text valueToJSString() gives for a number is a number of JavaScript: the
\* text of the token with no unit after it and no second point
jsNumber(text) ==
  /\ \A i \in DOMAIN text : text[i] \in Digits \cup {"."}
  /\ Cardinality({ i \in DOMAIN text : text[i] = "." }) <= 1

\* the text valueToJSString() gives for a value is an expression of JavaScript
\* (the strings of the programs loaded have no quote, backslash or line break)
RECURSIVE jsParses(_)
jsParses(value) ==
  CASE value.type = "number" -> jsNumber(value.value)
    [] value.type = "array" ->
         \A i \in DOMAIN value.elements : jsParses(value.elements[i])
    [] value.type = "object" ->
         \A i \in DOMAIN value.properties : jsParses(value.properties[i].value)
    [] value.type = "binaryExpression" -> jsParses(value.left) /\ jsParses(value.right)
    [] value.type = "ternary" ->
         jsParses(value.condition) /\ jsParses(value.trueExpr) /\ jsParses(value.falseExpr)
    [] OTHER -> TRUE

\* the text actionToJS() gives for an action is a statement list of JavaScript in
\* a function that is async or not: an await is one in an async function only
RECURSIVE actionParses(_, _, _)
actionParses(ast, action, async) ==
  CASE action.type = "assignment" ->
         actionToJS(ast, action).op \in {"pageHide", "pageShow"} \/ jsParses(action.value)
    [] action.type = "functionCall" ->
         \A i \in DOMAIN action.args : jsParses(action.args[i])
    [] action.type = "if" ->
         /\ jsParses(action.condition)
         /\ \A i \in DOMAIN action.body : actionParses(ast, action.body[i], async)
         /\ \A i \in DOMAIN action.elseBody : actionParses(ast, action.elseBody[i], async)
    [] action.type = "wait" ->
         /\ async
         /\ jsParses(action.duration)
         /\ \A i \in DOMAIN action.body : actionParses(ast, action.body[i], async)
    [] OTHER -> TRUE

functionParses(ast, actions, async) ==
  \A i \in DOMAIN actions : actionParses(ast, actions[i], async)

\* the script after an element is a script of JavaScript: each listener is async
\* when its text includes await
elementScriptParses(ast, node) ==
  \A k \in DOMAIN node.handlers :
    functionParses(ast, node.handlers[k].actions, isAsync(ast, node.handlers[k].actions))

\* the text statementToJS() gives for a statement is a statement of JavaScript
RECURSIVE statementParses(_)
statementParses(stmt) ==
  CASE stmt.type = "assignment" -> includes(stmt.varName, ".") \/ jsParses(stmt.value)
    [] stmt.type = "functionCall" -> \A i \in DOMAIN stmt.args : jsParses(stmt.args[i])
    [] stmt.type = "if" ->
         /\ jsParses(stmt.condition)
         /\ \A i \in DOMAIN stmt.body : statementParses(stmt.body[i])
         /\ \A i \in DOMAIN stmt.elseBody : statementParses(stmt.elseBody[i])
    [] OTHER -> TRUE

\* the script of generateJavaScript() is a script of JavaScript (the programs
\* loaded have no top-level statement)
globalScriptParses(ast) ==
  /\ \A i \in DOMAIN ast.functions :
       \A k \in DOMAIN ast.functions[i].value.body :
         statementParses(ast.functions[i].value.body[k])
  /\ \A i \in DOMAIN ast.globalVariables : jsParses(ast.globalVariables[i].value)
  /\ \A i \in DOMAIN ast.watchers : functionParses(ast, ast.watchers[i].actions, FALSE)
  /\ \A i \in DOMAIN ast.intervals :
       /\ jsParses(ast.intervals[i].duration)
       /\ functionParses(ast, ast.intervals[i].actions, FALSE)
  /\ \A i \in DOMAIN ast.keyHandlers :
       /\ jsParses(ast.keyHandlers[i].key)
       /\ functionParses(ast, ast.keyHandlers[i].actions, FALSE)

DocNode(kind, name, path, display, active) ==
  [kind |-> kind, name |-> name, path |-> path, display |-> display, active |-> active]

\* a script of the document; one that is no script of JavaScript does not run
DocScript(kind, name, path, other, cond, parses) ==
  [kind |-> kind, name |-> name, path |-> path, other |-> other, cond |-> cond,
   parses |-> parses]

\* elementVarName of an element: the text of its var property, <<>> for none
varOf(el) ==
  IF MapHas(el.props, <<"v","a","r">>) THEN valueToString(MapGet(el.props, <<"v","a","r">>)) ELSE <<>>

\* draggable: "true" or "1"
dragData(el) ==
  /\ MapHas(el.props, <<"d","r","a","g","g","a","b","l","e">>)
  /\ valueToString(MapGet(el.props, <<"d","r","a","g","g","a","b","l","e">>)) \in { <<"t","r","u","e">>, <<"1">> }

\* the nodes generateElement() writes for a node at a path, in document order
RECURSIVE nodesOf(_, _)
nodesOf(node, path) ==
  CASE node.type = "Element" ->
         <<DocNode("el", <<>>, path, "", FALSE)>>
         \o join([j \in DOMAIN node.children |->
                    nodesOf(node.children[j], Append(path, 2 * j))], <<>>)
    [] node.type = "if" ->
         <<DocNode("if_block", <<>>, path, "none", FALSE)>>
         \o join([j \in DOMAIN node.children |->
                    nodesOf(node.children[j], Append(path, 2 * j))], <<>>)
         \o (IF hasElseBlock(node)
               THEN <<DocNode("else_block", <<>>, elsePath(path), "none", FALSE)>>
                    \o join([j \in DOMAIN node.elseChildren |->
                               nodesOf(node.elseChildren[j], Append(elsePath(path), 2 * j))], <<>>)
               ELSE <<>>)
    [] OTHER -> <<>>

\* the scripts generateElement() writes for a node, in document order: that of a
\* conditional child after its containers, that of an element after its markup
RECURSIVE scriptsOf(_, _, _)
scriptsOf(ast, node, path) ==
  CASE node.type = "Element" ->
         join([j \in DOMAIN node.children |->
                 scriptsOf(ast, node.children[j], Append(path, 2 * j))], <<>>)
         \o (IF Len(node.handlers) > 0 \/ varOf(node) # <<>> \/ dragData(node)
               THEN <<DocScript("register", varOf(node), path, <<>>, NullNode,
                                elementScriptParses(ast, node))>>
               ELSE <<>>)
    [] node.type = "if" ->
         join([j \in DOMAIN node.children |->
                 scriptsOf(ast, node.children[j], Append(path, 2 * j))], <<>>)
         \o (IF hasElseBlock(node)
               THEN join([j \in DOMAIN node.elseChildren |->
                            scriptsOf(ast, node.elseChildren[j], Append(elsePath(path), 2 * j))], <<>>)
               ELSE <<>>)
         \o <<DocScript("condition", <<>>, path,
                        IF hasElseBlock(node) THEN elsePath(path) ELSE <<>>, node.condition,
                        jsParses(node.condition))>>
    [] OTHER -> <<>>

\* the nodes of the document: the container of each page, then its elements
documentNodes(ast) ==
  join([p \in DOMAIN ast.pages |->
          <<DocNode("page", ast.pages[p].key, <<p>>,
                    "", activeClass(ast.pages[p].key, MapKeys(ast.pages)) = "active")>>
          \o join([j \in DOMAIN ast.pages[p].value.elements |->
                     nodesOf(ast.pages[p].value.elements[j], <<p, 2 * j>>)], <<>>)], <<>>)

\* the scripts of the document: those of the markup, then the script of
\* generateJavaScript() and the timeout it sets
documentScripts(ast) ==
  join([p \in DOMAIN ast.pages |->
          join([j \in DOMAIN ast.pages[p].value.elements |->
                  scriptsOf(ast, ast.pages[p].value.elements[j], <<p, 2 * j>>)], <<>>)], <<>>)
  \o <<DocScript("script", <<>>, <<>>, <<>>, NullNode, globalScriptParses(ast)),
       DocScript("timeout", <<>>, <<>>, <<>>, NullNode, globalScriptParses(ast))>>

\* interpolateTemplateString(): the names of the placeholders of a text, one for
\* each {name} with a name of one character or more that has no }
RECURSIVE placeholderNames(_, _)
placeholderNames(text, i) ==
  IF i > Len(text) THEN <<>>
  ELSE IF text[i] = "{" /\ \E j \in (i + 1)..Len(text) : text[j] = "}"
    THEN LET j == Least({ k \in (i + 1)..Len(text) : text[k] = "}" })
         IN  IF j > i + 1
               THEN <<trim(SubSeq(text, i + 1, j - 1))>> \o placeholderNames(text, j + 1)
               ELSE placeholderNames(text, i + 1)
    ELSE placeholderNames(text, i + 1)

\* the placeholders generateElement() writes for a node: those of its text, then
\* those of its children
RECURSIVE placeholdersOf(_)
placeholdersOf(node) ==
  CASE node.type = "Element" ->
         (IF MapHas(node.props, <<"t","e","x","t">>) /\ node.name # <<"i","m","a","g","e">>
            THEN placeholderNames(valueToString(MapGet(node.props, <<"t","e","x","t">>)), 1)
            ELSE <<>>)
         \o join([j \in DOMAIN node.children |-> placeholdersOf(node.children[j])], <<>>)
    [] node.type = "if" ->
         join([j \in DOMAIN node.children |-> placeholdersOf(node.children[j])], <<>>)
         \o (IF hasElseBlock(node)
               THEN join([j \in DOMAIN node.elseChildren |->
                            placeholdersOf(node.elseChildren[j])], <<>>)
               ELSE <<>>)
    [] OTHER -> <<>>

documentPlaceholders(ast) ==
  join([p \in DOMAIN ast.pages |->
          join([j \in DOMAIN ast.pages[p].value.elements |->
                  placeholdersOf(ast.pages[p].value.elements[j])], <<>>)], <<>>)

\* window.psl_vars.name = value, for each global variable in turn
RECURSIVE initialStore(_, _, _)
initialStore(globals, i, psl_vars) ==
  IF i > Len(globals) THEN psl_vars
  ELSE initialStore(globals, i + 1,
                    MapPut(psl_vars, globals[i].key, evalJS(globals[i].value, psl_vars)))

\* the refresh of the placeholders: el.textContent = window.psl_vars[varName] when
\* that is not undefined
refresh(texts, psl_vars) ==
  [i \in DOMAIN texts |->
     IF MapHas(psl_vars, texts[i].name) /\ MapGet(psl_vars, texts[i].name) # Undefined
       THEN [texts[i] EXCEPT !.text = textOf(MapGet(psl_vars, texts[i].name))]
       ELSE texts[i]]

\* the node at a path
nodeAt(nodes, path) == CHOOSE i \in DOMAIN nodes : nodes[i].path = path

setDisplay(nodes, path, display) ==
  [nodes EXCEPT ![nodeAt(nodes, path)] = [@ EXCEPT !.display = display]]

\* the programs whose document is loaded
DocCorpus ==
  { <<"x"," ","="," ","1",";"," ","s","e","t","X","(",")"," ","{"," ","x"," ","="," ","2",";"," ","i","f"," ","(","x"," ","=","="," ","2",")"," ","{"," ","l","o","g","(","x",")",";"," ","}"," ","t",".","t","e","x","t"," ","="," ","1",";"," ","}"," ","w","a","t","c","h","(","x",")"," ","{"," ","l","o","g","(","\"","w","\"",")",";"," ","}"," ","h","o","m","e"," ","{"," ","t","(","\"","{","x","}","\"",")"," ","a","(",")"," ","{"," ","o","n","C","l","i","c","k"," ","{"," ","s","e","t","X","(",")",";"," ","l","o","g","(","\"","a","\"",")",";"," ","}"," ","}"," ","b","(",")"," ","{"," ","o","n","C","l","i","c","k"," ","{"," ","x",":"," ","2",";"," ","}"," ","}"," ","}">>,
    <<"h","o","m","e"," ","{"," ","b","(",")"," ","{"," ","o","n","C","l","i","c","k"," ","{"," ","n","o","p","e","(",")",";"," ","l","o","g","(","\"","a","\"",")",";"," ","}"," ","}"," ","}">>,
    <<"x"," ","="," ","0",";"," ","y"," ","="," ","0",";"," ","w","a","t","c","h","(","x",")"," ","{"," ","y",":"," ","1",";"," ","}"," ","w","a","t","c","h","(","y",")"," ","{"," ","x",":"," ","2",";"," ","}"," ","h","o","m","e"," ","{"," ","t","(","\"","{","x","}","\"",")"," ","b","(",")"," ","{"," ","o","n","C","l","i","c","k"," ","{"," ","x",":"," ","1","0",";"," ","l","o","g","(","\"","a","\"",")",";"," ","}"," ","}"," ","}">>,
    <<"h","o","m","e"," ","{"," ","b","o","x","(",")"," ","{"," ","v","a","r",":"," ","\"","t","o","S","t","r","i","n","g","\"",";"," ","}"," ","b","(",")"," ","{"," ","o","n","C","l","i","c","k"," ","{"," ","t","o","S","t","r","i","n","g",".","h","i","d","e",":"," ","t","r","u","e",";"," ","}"," ","}"," ","}">>,
    <<"x"," ","="," ","1",";"," ","h","o","m","e"," ","{"," ","t","(","\"","{","x","}","\"",")"," ","a","(",")"," ","{"," ","o","n","C","l","i","c","k"," ","{"," ","x",":"," ","2",";"," ","w","a","i","t","(","1","0","0","0",")"," ","{"," ","l","o","g","(","x",")",";"," ","}"," ","x",":"," ","3",";"," ","}"," ","}"," ","b","(",")"," ","{"," ","o","n","C","l","i","c","k"," ","{"," ","x",":"," ","5",";"," ","}"," ","o","n","H","o","v","e","r"," ","{"," ","w","a","i","t","(","2","0",")",";"," ","l","o","g","(","\"","b","\"",")",";"," ","}"," ","}"," ","}">>,
    <<"x"," ","="," ","5",";"," ","w","a","t","c","h","(","x",")"," ","{"," ","w","a","i","t","(","1","s",")",";"," ","}"," ","h","o","m","e"," ","{"," ","t","(","\"","{","x","}","\"",")"," ","b","(",")"," ","{"," ","o","n","C","l","i","c","k"," ","{"," ","x",":"," ","1","0",";"," ","}"," ","}"," ","}">>,
    <<"h","o","m","e"," ","{"," ","b","o","x","(",")"," ","{"," ","v","a","r",":"," ","\"","m","y","B","o","x","\"",";"," ","o","n","C","l","i","c","k"," ","{"," ","w","a","i","t","(","1","s",")",";"," ","}"," ","}"," ","b","(",")"," ","{"," ","o","n","C","l","i","c","k"," ","{"," ","m","y","B","o","x",".","h","i","d","e",":"," ","t","r","u","e",";"," ","}"," ","}"," ","}">>,
    <<"e","v","e","r","y","(","1","s",")"," ","{"," ","l","o","g","(","\"","a","\"",")",";"," ","}"," ","h","o","m","e"," ","{"," ","b","o","x","(",")"," ","{"," ","v","a","r",":"," ","\"","m","y","B","o","x","\"",";"," ","}"," ","b","(",")"," ","{"," ","o","n","C","l","i","c","k"," ","{"," ","m","y","B","o","x",".","h","i","d","e",":"," ","t","r","u","e",";"," ","}"," ","}"," ","}">>,
    <<"h","o","m","e"," ","{"," ","b","o","x","(",")"," ","{"," ","v","a","r",":"," ","\"","m","y","B","o","x","\"",";"," ","}"," ","b","(",")"," ","{"," ","o","n","C","l","i","c","k"," ","{"," ","m","y","B","o","x",".","h","i","d","e",":"," ","t","r","u","e",";"," ","}"," ","}"," ","}">>,
    <<"h","o","m","e"," ","{"," ","b","o","x","(",")"," ","{"," ","v","a","r",":"," ","\"","a","b","o","u","t","\"",";"," ","}"," ","b","(",")"," ","{"," ","o","n","C","l","i","c","k"," ","{"," ","a","b","o","u","t",".","h","i","d","e",":"," ","t","r","u","e",";"," ","}"," ","}"," ","}"," ","a","b","o","u","t"," ","{"," ","t","(",")"," ","}">>,
    <<"h","o","m","e"," ","{"," ","a","(",")"," ","{"," ","v","a","r",":"," ","\"","n","\"",";"," ","}"," ","b","(",")"," ","{"," ","v","a","r",":"," ","\"","n","\"",";"," ","o","n","C","l","i","c","k"," ","{"," ","n",".","h","i","d","e",":"," ","t","r","u","e",";"," ","n",".","s","h","o","w",":"," ","t","r","u","e",";"," ","n",".","t","e","x","t",":"," ","\"","a","\"",";"," ","}"," ","}"," ","}">>,
    <<"x"," ","="," ","5",";"," ","w","a","t","c","h","(","x",")"," ","{"," ","l","o","g","(","x",")",";"," ","}"," ","h","o","m","e"," ","{"," ","t","(","\"","{","x","}","\"",")"," ","b","(",")"," ","{"," ","o","n","C","l","i","c","k"," ","{"," ","x",":"," ","1","0",";"," ","}"," ","}"," ","}">>,
    <<"x"," ","="," ","5",";"," ","y"," ","="," ","0",";"," ","w","a","t","c","h","(","x",")"," ","{"," ","y",":"," ","1",";"," ","}"," ","w","a","t","c","h","(","y",")"," ","{"," ","l","o","g","(","y",")",";"," ","}"," ","w","a","t","c","h","(","x",")"," ","{"," ","l","o","g","(","x",")",";"," ","}"," ","h","o","m","e"," ","{"," ","t","(","\"","{","x","}"," ","{"," ","y"," ","}"," ","{","}","\"",")"," ","b","(",")"," ","{"," ","o","n","C","l","i","c","k"," ","{"," ","x",":"," ","1","0",";"," ","}"," ","}"," ","}">>,
    <<"x"," ","="," ","0",";"," ","w","a","t","c","h","(","x",")"," ","{"," ","x",":"," ","1",";"," ","}"," ","h","o","m","e"," ","{"," ","b","(",")"," ","{"," ","o","n","C","l","i","c","k"," ","{"," ","x",":"," ","1","0",";"," ","}"," ","}"," ","}">>,
    <<"f","l","a","g"," ","="," ","t","r","u","e",";"," ","h","o","m","e"," ","{"," ","b","o","x","(",")"," ","{"," ","i","f"," ","(","f","l","a","g",")"," ","{"," ","t","i","t","l","e","(","\"","Y","e","s","\"",")"," ","}"," ","e","l","s","e"," ","{"," ","t","i","t","l","e","(","\"","N","o","\"",")"," ","}"," ","}"," ","b","(",")"," ","{"," ","o","n","C","l","i","c","k"," ","{"," ","f","l","a","g",":"," ","f","a","l","s","e",";"," ","}"," ","}"," ","}">>,
    <<"h","o","m","e"," ","{"," ","b","o","x","(",")"," ","{"," ","i","f"," ","(","f","l","a","g",")"," ","{"," ","t","i","t","l","e","(","\"","Y","e","s","\"",")"," ","}"," ","e","l","s","e"," ","{"," ","t","i","t","l","e","(","\"","N","o","\"",")"," ","}"," ","}"," ","b","(",")"," ","{"," ","o","n","C","l","i","c","k"," ","{"," ","f","l","a","g",":"," ","t","r","u","e",";"," ","}"," ","}"," ","}">>,
    <<"h","o","m","e"," ","{"," ","b","o","x","(",")"," ","{"," ","i","f"," ","(","t","r","u","e",")"," ","{"," ","t","i","t","l","e","(","\"","Y","e","s","\"",")"," ","{"," ","v","a","r",":"," ","\"","y","e","s","\"",";"," ","}"," ","}"," ","e","l","s","e"," ","{"," ","t","i","t","l","e","(","\"","N","o","\"",")"," ","}"," ","}"," ","b","(",")"," ","{"," ","o","n","C","l","i","c","k"," ","{"," ","y","e","s",".","h","i","d","e",":"," ","t","r","u","e",";"," ","}"," ","o","n","H","o","v","e","r"," ","{"," ","h","o","m","e",".","h","i","d","e",";"," ","}"," ","}"," ","}">>,
    <<"n"," ","="," ","1",";"," ","h","o","m","e"," ","{"," ","b","o","x","(",")"," ","{"," ","i","f"," ","(","n"," ","=","="," ","1",")"," ","{"," ","t","(","\"","a","\"",")"," ","}"," ","}"," ","c","(",")"," ","{"," ","i","f"," ","(","n"," ","!","="," ","1",")"," ","{"," ","t","(","\"","b","\"",")"," ","}"," ","e","l","s","e"," ","{"," ","t","(","\"","c","\"",")"," ","{"," ","i","f"," ","(","m",")"," ","{"," ","u","(",")"," ","}"," ","e","l","s","e"," ","{"," ","v","(",")"," ","}"," ","}"," ","}"," ","}"," ","o","n","S","w","i","p","e","L","e","f","t"," ","{"," ","n",":"," ","2",";"," ","}"," ","}">>,
    <<"h","o","m","e"," ","{"," ","b","(",")"," ","{"," ","o","n","C","l","i","c","k"," ","{"," ","g","h","o","s","t",".","h","i","d","e",":"," ","t","r","u","e",";"," ","}"," ","}"," ","}">>,
    <<"h","o","m","e"," ","{"," ","b","(",")"," ","{"," ","o","n","C","l","i","c","k"," ","{"," ","a","b","o","u","t",".","s","h","o","w",";"," ","g","h","o","s","t",".","t","e","x","t",":"," ","\"","a","\"",";"," ","}"," ","}"," ","}"," ","a","b","o","u","t"," ","{"," ","}">>,
    <<"x"," ","="," ","1",";"," ","e","v","e","r","y","(","1","0","0","0",")"," ","{"," ","x",":"," ","3",";"," ","}"," ","o","n","K","e","y","(","\"","a","\"",")"," ","{"," ","h","o","m","e",".","s","h","o","w",";"," ","}"," ","h","o","m","e"," ","{"," ","b","(",")"," ","{"," ","o","n","C","l","i","c","k"," ","{"," ","i","f"," ","(","x"," ","=","="," ","1",")"," ","{"," ","x",":"," ","2",";"," ","}"," ","e","l","s","e"," ","{"," ","x",":"," ","1",";"," ","}"," ","l","o","g","(","\"","a","\"",")",";"," ","}"," ","}"," ","}">> }

DocInit ==
  /\ \E text \in DocCorpus : dast = ProgramOf(text)
  /\ dload = documentScripts(dast)
  /\ dnodes = documentNodes(dast)
  /\ dreg = <<>>
  /\ dvars = <<>>
  /\ dwatchers = <<>>
  /\ dtexts = [i \in DOMAIN documentPlaceholders(dast) |->
                 [name |-> documentPlaceholders(dast)[i], text |-> <<>>]]
  /\ dstack = <<>>
  /\ dlog = <<>>
  /\ devents = 0
  /\ dsuspended = <<>>
  /\ dcurrent = 0
  /\ dstat = "load"
  /\ NotDocIdle

\* the next script of the document runs
Load(kind) ==
  /\ dstat = "load" /\ dload # <<>>
  /\ Head(dload).kind = kind /\ Head(dload).parses
  /\ dload' = Tail(dload)
  /\ dstat' = (IF Tail(dload) = <<>> THEN "ready" ELSE "load")
  /\ UNCHANGED <<dast, dsuspended, dcurrent, dstack, dlog, devents>>
  /\ UNCHANGED notDoc

\* the script after an element: window.psl_elements.N = el, when it has a var
LoadRegister ==
  /\ Load("register")
  /\ dreg' = (IF Head(dload).name # <<>>
                THEN MapPut(dreg, Head(dload).name, Head(dload).path)
                ELSE dreg)
  /\ UNCHANGED <<dnodes, dvars, dwatchers, dtexts>>

\* the script of a conditional child: updateConditionalDisplay(), called once
LoadCondition ==
  /\ Load("condition")
  /\ LET s == Head(dload)
         shown == truthy(evalJS(s.cond, dvars))
         ifSet == setDisplay(dnodes, s.path, IF shown THEN "block" ELSE "none")
     IN  dnodes' = (IF s.other # <<>>
                      THEN setDisplay(ifSet, s.other, IF shown THEN "none" ELSE "block")
                      ELSE ifSet)
  /\ UNCHANGED <<dreg, dvars, dwatchers, dtexts>>

\* the script of generateJavaScript(): the global variables, then the watchers
LoadScript ==
  /\ Load("script")
  /\ dvars' = initialStore(dast.globalVariables, 1, dvars)
  /\ dwatchers' = [i \in DOMAIN dast.watchers |->
                     [variable |-> valueToString(dast.watchers[i].variable),
                      actions |-> dast.watchers[i].actions]]
  /\ UNCHANGED <<dnodes, dreg, dtexts>>

\* the timeout of generateJavaScript(): the first refresh of the placeholders
LoadTimeout ==
  /\ Load("timeout")
  /\ dtexts' = refresh(dtexts, dvars)
  /\ UNCHANGED <<dnodes, dreg, dvars, dwatchers>>

\* a script that is no script of JavaScript: a SyntaxError, and nothing of it runs
LoadSyntaxError ==
  /\ dstat = "load" /\ dload # <<>>
  /\ ~Head(dload).parses
  /\ dload' = Tail(dload)
  /\ dstat' = (IF Tail(dload) = <<>> THEN "ready" ELSE "load")
  /\ UNCHANGED <<dast, dsuspended, dcurrent, dnodes, dreg, dvars, dwatchers, dtexts, dstack, dlog, devents>>
  /\ UNCHANGED notDoc

Frame(kind, actions, name, next) ==
  [kind |-> kind, actions |-> actions, name |-> name, next |-> next]

LogEntry(op, name, index, value) ==
  [op |-> op, name |-> name, index |-> index, value |-> value, depth |-> Len(dstack),
   inv |-> dcurrent]

\* the listeners of a node whose script has run
RECURSIVE attachedOf(_, _)
attachedOf(ast, node) ==
  CASE node.type = "SwipeHandler" ->
         IF functionParses(ast, node.actions, FALSE) THEN listenersOf(node) ELSE <<>>
    [] node.type = "Element" ->
         join([j \in DOMAIN node.children |-> attachedOf(ast, node.children[j])], <<>>)
         \o (IF elementScriptParses(ast, node)
               THEN listenersOf([node EXCEPT !.children = <<>>])
               ELSE <<>>)
    [] node.type = "if" ->
         join([j \in DOMAIN node.children |-> attachedOf(ast, node.children[j])], <<>>)
         \o (IF hasElseBlock(node)
               THEN join([j \in DOMAIN node.elseChildren |->
                            attachedOf(ast, node.elseChildren[j])], <<>>)
               ELSE <<>>)
    [] OTHER -> <<>>

\* the callbacks an event of the loaded document can call: the intervals and the
\* keydown listener of the script of generateJavaScript(), the listeners of the
\* pages
eventCallbacks(ast) ==
  (IF globalScriptParses(ast)
     THEN SelectSeq(scriptCallbacks(ast), LAMBDA c : c.kind # "watcher")
     ELSE <<>>)
  \o join([p \in DOMAIN ast.pages |->
             join([j \in DOMAIN ast.pages[p].value.elements |->
                     attachedOf(ast, ast.pages[p].value.elements[j])], <<>>)], <<>>)

\* an event calls a listener, an interval its callback
DocEvent ==
  /\ dstat = "ready" /\ dstack = <<>> /\ devents < MaxEvents
  /\ \E i \in DOMAIN eventCallbacks(dast) :
       /\ dstack' = <<Frame("actions", eventCallbacks(dast)[i].actions, <<>>, 0)>>
       /\ dlog' = Append(dlog, [LogEntry("event", eventCallbacks(dast)[i].event, i, Undefined)
                                  EXCEPT !.inv = devents + 1])
  /\ devents' = devents + 1
  /\ dcurrent' = devents + 1
  /\ UNCHANGED <<dast, dsuspended, dload, dnodes, dreg, dvars, dwatchers, dtexts, dstat>>
  /\ UNCHANGED notDoc

\* the kind of the statement actionToJS() writes for an action
statementOf(action) ==
  CASE action.type \in {"assignment", "functionCall"} -> actionToJS(dast, action).op
    [] OTHER -> action.type

\* the innermost call is at a statement of this kind
AtStatement(kind) ==
  /\ dstat = "ready" /\ dstack # <<>>
  /\ Head(dstack).kind = "actions" /\ Head(dstack).actions # <<>>
  /\ statementOf(Head(Head(dstack).actions)) = kind

theAction == Head(Head(dstack).actions)

\* the stack with the statement done, and with the calls it made on top
Continue(calls) ==
  calls \o <<[Head(dstack) EXCEPT !.actions = Tail(@)]>> \o Tail(dstack)

\* window.psl_vars.key = value; window.psl_triggerWatchers('key');
DocAssign ==
  /\ AtStatement("variable")
  /\ globalScriptParses(dast)
  /\ dvars' = MapPut(dvars, theAction.key, evalJS(theAction.value, dvars))
  /\ dstack' = Continue(<<Frame("trigger", <<>>, theAction.key, 1)>>)
  /\ dlog' = Append(dlog, LogEntry("set", theAction.key, 0, evalJS(theAction.value, dvars)))
  /\ UNCHANGED <<dast, dsuspended, dcurrent, dload, dnodes, dreg, dwatchers, dtexts, devents, dstat>>
  /\ UNCHANGED notDoc

\* the same with window.psl_triggerWatchers undefined, the script that defines it
\* not having run: the store is written, the call is a TypeError, the callback ends
DocAssignThrow ==
  /\ AtStatement("variable")
  /\ ~globalScriptParses(dast)
  /\ dvars' = MapPut(dvars, theAction.key, evalJS(theAction.value, dvars))
  /\ dstack' = <<>>
  /\ dlog' = dlog \o <<LogEntry("set", theAction.key, 0, evalJS(theAction.value, dvars)),
                       LogEntry("TypeError", theAction.key, 0, Undefined)>>
  /\ UNCHANGED <<dast, dsuspended, dcurrent, dload, dnodes, dreg, dwatchers, dtexts, devents, dstat>>
  /\ UNCHANGED notDoc

\* the statement of name.hide, name a page
DocPageHide ==
  /\ AtStatement("pageHide")
  /\ dnodes' = pageHide(dnodes, actionToJS(dast, theAction).name)
  /\ dstack' = Continue(<<>>)
  /\ UNCHANGED <<dast, dsuspended, dcurrent, dload, dreg, dvars, dwatchers, dtexts, dlog, devents, dstat>>
  /\ UNCHANGED notDoc

\* the statement of name.show, name a page
DocPageShow ==
  /\ AtStatement("pageShow")
  /\ dnodes' = pageShow(dnodes, actionToJS(dast, theAction).name)
  /\ dstack' = Continue(<<>>)
  /\ UNCHANGED <<dast, dsuspended, dcurrent, dload, dreg, dvars, dwatchers, dtexts, dlog, devents, dstat>>
  /\ UNCHANGED notDoc

\* el.style.display for the properties hide and show; the other properties set no
\* display
displayFor(prop, v, display) ==
  CASE prop = <<"h","i","d","e">> ->
         IF v \in { JSValue("boolean", TRUE, <<>>), JSValue("number", FALSE, <<"1">>),
                    JSValue("string", FALSE, <<"1">>) } THEN "none" ELSE "block"
    [] prop = <<"s","h","o","w">> ->
         IF v \in { JSValue("boolean", FALSE, <<>>), JSValue("number", FALSE, <<"0">>),
                    JSValue("string", FALSE, <<"0">>) } THEN "none" ELSE "block"
    [] OTHER -> display

\* the statement of a dotted assignment, window.psl_elements[name] being a node:
\* the property of that node is set, then window.psl_triggerWatchers('name')
DocElement ==
  /\ AtStatement("element")
  /\ LET elemName == split(theAction.key)[1]
         prop == split(theAction.key)[2]
     IN  /\ MapHas(dreg, elemName)
         /\ globalScriptParses(dast)
         /\ dnodes' = setDisplay(dnodes, MapGet(dreg, elemName),
                                 displayFor(prop, evalJS(theAction.value, dvars),
                                            dnodes[nodeAt(dnodes, MapGet(dreg, elemName))].display))
         /\ dstack' = Continue(<<Frame("trigger", <<>>, elemName, 1)>>)
         /\ dlog' = Append(dlog, LogEntry("element", elemName, 0, evalJS(theAction.value, dvars)))
  /\ UNCHANGED <<dast, dsuspended, dcurrent, dload, dreg, dvars, dwatchers, dtexts, devents, dstat>>
  /\ UNCHANGED notDoc

\* the same with window.psl_triggerWatchers undefined: the property is set, the
\* call is a TypeError, the callback ends
DocElementThrow ==
  /\ AtStatement("element")
  /\ LET elemName == split(theAction.key)[1]
         prop == split(theAction.key)[2]
     IN  /\ MapHas(dreg, elemName)
         /\ ~globalScriptParses(dast)
         /\ dnodes' = setDisplay(dnodes, MapGet(dreg, elemName),
                                 displayFor(prop, evalJS(theAction.value, dvars),
                                            dnodes[nodeAt(dnodes, MapGet(dreg, elemName))].display))
         /\ dstack' = <<>>
         /\ dlog' = dlog \o <<LogEntry("element", elemName, 0, evalJS(theAction.value, dvars)),
                              LogEntry("TypeError", elemName, 0, Undefined)>>
  /\ UNCHANGED <<dast, dsuspended, dcurrent, dload, dreg, dvars, dwatchers, dtexts, devents, dstat>>
  /\ UNCHANGED notDoc

\* the statement of a dotted assignment, window.psl_elements[name] being undefined:
\* the if has no else
DocElementMissing ==
  /\ AtStatement("element")
  /\ ~MapHas(dreg, split(theAction.key)[1])
  /\ dstack' = Continue(<<>>)
  /\ UNCHANGED <<dast, dsuspended, dcurrent, dload, dnodes, dreg, dvars, dwatchers, dtexts, dlog, devents, dstat>>
  /\ UNCHANGED notDoc

\* console.log(args), alert(args), ...
DocCall ==
  /\ AtStatement("builtin")
  /\ dstack' = Continue(<<>>)
  /\ dlog' = Append(dlog, LogEntry("call", theAction.name, 0,
                                   IF theAction.args # <<>>
                                     THEN evalJS(theAction.args[1], dvars) ELSE Undefined))
  /\ UNCHANGED <<dast, dsuspended, dcurrent, dload, dnodes, dreg, dvars, dwatchers, dtexts, devents, dstat>>
  /\ UNCHANGED notDoc

\* the innermost call is at a call of a function of window: in a callback, or
\* in the body of a user function, where only log and alert are console calls
AtWindowCall ==
  /\ dstat = "ready" /\ dstack # <<>>
  /\ Head(dstack).actions # <<>>
  /\ theAction.type = "functionCall"
  /\ \/ Head(dstack).kind = "actions" /\ statementOf(theAction) = "window"
     \/ Head(dstack).kind = "statements" /\ theAction.name \notin { <<"l","o","g">>, <<"a","l","e","r","t">> }
  /\ theAction.name # <<"s","h","o","w","P","a","g","e">>

\* window.name(args), name a function of the program: its body runs
DocFunctionCall ==
  /\ AtWindowCall
  /\ globalScriptParses(dast) /\ MapHas(dast.functions, theAction.name)
  /\ Len(dstack) < MaxDepth
  /\ dstack' = Continue(<<Frame("statements", MapGet(dast.functions, theAction.name).body,
                               theAction.name, 0)>>)
  /\ dlog' = Append(dlog, LogEntry("function", theAction.name, 0, Undefined))
  /\ UNCHANGED <<dast, dsuspended, dcurrent, dload, dnodes, dreg, dvars, dwatchers, dtexts, devents, dstat>>
  /\ UNCHANGED notDoc

\* window.name(args), window.name undefined: a TypeError ends the callback
DocFunctionMissing ==
  /\ AtWindowCall
  /\ ~(globalScriptParses(dast) /\ MapHas(dast.functions, theAction.name))
  /\ dstack' = <<>>
  /\ dlog' = Append(dlog, LogEntry("TypeError", theAction.name, 0, Undefined))
  /\ UNCHANGED <<dast, dsuspended, dcurrent, dload, dnodes, dreg, dvars, dwatchers, dtexts, devents, dstat>>
  /\ UNCHANGED notDoc

\* the innermost call is at a statement of this type of the body of a function
AtFunctionStatement(type) ==
  /\ dstat = "ready" /\ dstack # <<>>
  /\ Head(dstack).kind = "statements" /\ Head(dstack).actions # <<>>
  /\ theAction.type = type

\* statementToJS() of an assignment: window.psl_vars.varName = value; and no more,
\* a comment for a dotted name
DocStatementAssign ==
  /\ AtFunctionStatement("assignment")
  /\ IF includes(theAction.varName, ".")
       THEN UNCHANGED <<dvars, dlog>>
       ELSE /\ dvars' = MapPut(dvars, theAction.varName, evalJS(theAction.value, dvars))
            /\ dlog' = Append(dlog, LogEntry("store", theAction.varName, 0,
                                             evalJS(theAction.value, dvars)))
  /\ dstack' = Continue(<<>>)
  /\ UNCHANGED <<dast, dsuspended, dcurrent, dload, dnodes, dreg, dwatchers, dtexts, devents, dstat>>
  /\ UNCHANGED notDoc

\* statementToJS() of log and alert: console.log(args), alert(args)
DocStatementCall ==
  /\ AtFunctionStatement("functionCall")
  /\ theAction.name \in { <<"l","o","g">>, <<"a","l","e","r","t">> }
  /\ dstack' = Continue(<<>>)
  /\ dlog' = Append(dlog, LogEntry("call", theAction.name, 0,
                                   IF theAction.args # <<>>
                                     THEN evalJS(theAction.args[1], dvars) ELSE Undefined))
  /\ UNCHANGED <<dast, dsuspended, dcurrent, dload, dnodes, dreg, dvars, dwatchers, dtexts, devents, dstat>>
  /\ UNCHANGED notDoc

\* statementToJS() of an if: if (cond) { body } else { elseBody }
DocStatementIf ==
  /\ AtFunctionStatement("if")
  /\ dstack' = <<[Head(dstack) EXCEPT !.actions =
                    (IF truthy(evalJS(theAction.condition, dvars))
                       THEN theAction.body ELSE theAction.elseBody) \o Tail(@)]>>
                \o Tail(dstack)
  /\ UNCHANGED <<dast, dsuspended, dcurrent, dload, dnodes, dreg, dvars, dwatchers, dtexts, dlog, devents, dstat>>
  /\ UNCHANGED notDoc

\* if (cond) { ifBody } else { elseBody }
DocIf ==
  /\ AtStatement("if")
  /\ dstack' = <<[Head(dstack) EXCEPT !.actions =
                    (IF truthy(evalJS(theAction.condition, dvars))
                       THEN theAction.body ELSE theAction.elseBody) \o Tail(@)]>>
                \o Tail(dstack)
  /\ UNCHANGED <<dast, dsuspended, dcurrent, dload, dnodes, dreg, dvars, dwatchers, dtexts, dlog, devents, dstat>>
  /\ UNCHANGED notDoc

\* the watchers psl_triggerWatchers(name) has still to look at that are registered
\* for the name
watchersLeft(frame) ==
  { j \in DOMAIN dwatchers : j >= frame.next /\ dwatchers[j].variable = frame.name }

\* psl_triggerWatchers(): watcher.callback() of the next watcher of the name
DocInvoke ==
  /\ dstat = "ready" /\ dstack # <<>> /\ Len(dstack) < MaxDepth
  /\ Head(dstack).kind = "trigger"
  /\ watchersLeft(Head(dstack)) # {}
  /\ LET j == Least(watchersLeft(Head(dstack)))
     IN  /\ dstack' = <<Frame("actions", dwatchers[j].actions, <<>>, 0),
                        [Head(dstack) EXCEPT !.next = j + 1]>> \o Tail(dstack)
         /\ dlog' = Append(dlog, LogEntry("watcher", dwatchers[j].variable, j,
                                          IF MapHas(dvars, Head(dstack).name)
                                            THEN MapGet(dvars, Head(dstack).name)
                                            ELSE Undefined))
  /\ UNCHANGED <<dast, dsuspended, dcurrent, dload, dnodes, dreg, dvars, dwatchers, dtexts, devents, dstat>>
  /\ UNCHANGED notDoc

\* watcher.callback() with no room left on the call stack, MaxDepth standing for
\* the limit of the engine: a RangeError that nothing catches ends the callback
DocOverflow ==
  /\ dstat = "ready" /\ dstack # <<>> /\ Len(dstack) >= MaxDepth
  /\ Head(dstack).kind = "trigger"
  /\ watchersLeft(Head(dstack)) # {}
  /\ dstack' = <<>>
  /\ dlog' = Append(dlog, LogEntry("RangeError", Head(dstack).name, 0, Undefined))
  /\ UNCHANGED <<dast, dsuspended, dcurrent, dload, dnodes, dreg, dvars, dwatchers, dtexts, devents, dstat>>
  /\ UNCHANGED notDoc

\* psl_triggerWatchers(): the refresh of the placeholders, and the return
DocRefresh ==
  /\ dstat = "ready" /\ dstack # <<>>
  /\ Head(dstack).kind = "trigger"
  /\ watchersLeft(Head(dstack)) = {}
  /\ dtexts' = refresh(dtexts, dvars)
  /\ dstack' = Tail(dstack)
  /\ dlog' = Append(dlog, LogEntry("refresh", Head(dstack).name, 0, Undefined))
  /\ UNCHANGED <<dast, dsuspended, dcurrent, dload, dnodes, dreg, dvars, dwatchers, devents, dstat>>
  /\ UNCHANGED notDoc

\* a wait whose body runs after the actions that follow the wait
DocWait_BodyLast ==
  /\ AtStatement("wait")
  /\ Len(dstack) = 1
  /\ dsuspended' = Append(dsuspended, [id |-> dcurrent, duration |-> theAction.duration,
                                       actions |-> Tail(Head(dstack).actions) \o theAction.body])
  /\ dstack' = <<>>
  /\ dlog' = Append(dlog, LogEntry("wait", <<>>, 0, evalJS(theAction.duration, dvars)))
  /\ UNCHANGED <<dast, dcurrent, dload, dnodes, dreg, dvars, dwatchers, dtexts, devents, dstat>>
  /\ UNCHANGED notDoc

\* await new Promise(resolve => setTimeout(resolve, duration)) in an async
\* listener: the invocation is suspended with the body of the wait and the actions
\* after it still to run, and the listener returns to the event loop
DocWait ==
  /\ AtStatement("wait")
  /\ Len(dstack) = 1
  /\ dsuspended' = Append(dsuspended, [id |-> dcurrent, duration |-> theAction.duration,
                                       actions |-> theAction.body \o Tail(Head(dstack).actions)])
  /\ dstack' = <<>>
  /\ dlog' = Append(dlog, LogEntry("wait", <<>>, 0, evalJS(theAction.duration, dvars)))
  /\ UNCHANGED <<dast, dcurrent, dload, dnodes, dreg, dvars, dwatchers, dtexts, devents, dstat>>
  /\ UNCHANGED notDoc

\* the timers that can fire next: of the timers set with one delay the oldest
\* fires first
canResume(i) ==
  \A j \in 1..(i - 1) : dsuspended[j].duration # dsuspended[i].duration

\* the timer of a suspended invocation fires, no callback running: the invocation
\* goes on after its await
DocResume ==
  /\ dstat = "ready" /\ dstack = <<>>
  /\ \E i \in DOMAIN dsuspended :
       /\ canResume(i)
       /\ dstack' = <<Frame("actions", dsuspended[i].actions, <<>>, 0)>>
       /\ dcurrent' = dsuspended[i].id
       /\ dsuspended' = SubSeq(dsuspended, 1, i - 1) \o SubSeq(dsuspended, i + 1, Len(dsuspended))
       /\ dlog' = Append(dlog, [LogEntry("resume", <<>>, 0, Undefined)
                                  EXCEPT !.inv = dsuspended[i].id])
  /\ UNCHANGED <<dast, dload, dnodes, dreg, dvars, dwatchers, dtexts, devents, dstat>>
  /\ UNCHANGED notDoc

\* the end of a callback, or of the body of a function
DocReturn ==
  /\ dstat = "ready" /\ dstack # <<>>
  /\ Head(dstack).kind \in {"actions", "statements"} /\ Head(dstack).actions = <<>>
  /\ dstack' = Tail(dstack)
  /\ UNCHANGED <<dast, dsuspended, dcurrent, dload, dnodes, dreg, dvars, dwatchers, dtexts, dlog, devents, dstat>>
  /\ UNCHANGED notDoc

DocNext ==
  \/ LoadRegister \/ LoadCondition \/ LoadScript \/ LoadTimeout \/ LoadSyntaxError
  \/ DocEvent \/ DocAssign \/ DocAssignThrow \/ DocPageHide \/ DocPageShow
  \/ DocElement \/ DocElementThrow \/ DocWait \/ DocResume
  \/ DocElementMissing \/ DocCall \/ DocIf \/ DocInvoke \/ DocOverflow \/ DocRefresh
  \/ DocFunctionCall \/ DocFunctionMissing \/ DocStatementAssign \/ DocStatementCall
  \/ DocStatementIf \/ DocReturn

SpecDoc == DocInit /\ [][DocNext]_vars

\* the names the elements of the document declare with var
declaredVars(ast) ==
  { s.name : s \in { t \in Range(documentScripts(ast)) : t.kind = "register" /\ t.name # <<>> } }

\* the paths of the elements that declare the name
declaredPaths(ast, name) ==
  { s.path : s \in { t \in Range(documentScripts(ast)) : t.kind = "register" /\ t.name = name } }

\* the innermost call is at the action `name.hide: true`, name declared by an element
AtHideOfVar(name) ==
  /\ dstat = "ready" /\ dstack # <<>>
  /\ Head(dstack).kind = "actions" /\ Head(dstack).actions # <<>>
  /\ theAction.type = "assignment"
  /\ theAction.key = name \o <<".","h","i","d","e">>
  /\ theAction.value = [type |-> "boolean", value |-> TRUE]
  /\ name \in declaredVars(dast)

\* the step sets the display of the node the registry holds under the name, a node
\* that declares the name, to none, and changes no other node
HidesRegistered(name) ==
  /\ MapHas(dreg, name)
  /\ MapGet(dreg, name) \in declaredPaths(dast, name)
  /\ DOMAIN dnodes' = DOMAIN dnodes
  /\ \A i \in DOMAIN dnodes :
       dnodes'[i] = (IF dnodes[i].path = MapGet(dreg, name)
                       THEN [dnodes[i] EXCEPT !.display = "none"]
                       ELSE dnodes[i])

\* C12: when the action `N.hide: true` runs, N declared by an element with
\* `var: N`, the registry holds under N a node that declares N, stored by the
\* script after that element, and the step sets the display of that node, and of
\* no other node, to none.
C12_HideRegistered ==
  [][\A name \in declaredVars(dast) :
       AtHideOfVar(name) => HidesRegistered(name)]_vars

\* the scripts of the elements that declare the name are scripts of JavaScript
declaredParses(ast, name) ==
  \A s \in Range(documentScripts(ast)) : (s.kind = "register" /\ s.name = name) => s.parses

\* C12, for the names that are no names of pages and whose elements' scripts have
\* run: the registry holds each of them once the document is loaded, and the
\* action hides the registered node and no other.
C12_HideNotAPage ==
  [][\A name \in declaredVars(dast) :
       declaredParses(dast, name) =>
         /\ (AtHideOfVar(name) /\ ~isPage(dast, name)) => HidesRegistered(name)
         /\ dstat = "ready" =>
              (MapHas(dreg, name) /\ MapGet(dreg, name) \in declaredPaths(dast, name))]_vars

\* the action `N.hide: true` has run for a registered N that is no page, and the
\* node of N is not displayed
C12_Hidden ==
  \E i \in DOMAIN dlog :
    /\ dlog[i].op = "element"
    /\ dlog[i].name \in declaredVars(dast)
    /\ ~isPage(dast, dlog[i].name)
    /\ dlog[i].value = JSValue("boolean", TRUE, <<>>)
    /\ dnodes[nodeAt(dnodes, MapGet(dreg, dlog[i].name))].display = "none"

\* the entry of the log that ends the trigger of the store write at i: the first
\* refresh after i at the depth of that trigger, past the end for none
triggerEnd(log, i) ==
  Least({ k \in (i + 1)..Len(log) : log[k].op = "refresh" /\ log[k].depth = log[i].depth + 1 }
        \cup {Len(log) + 1})

\* what the trigger of the store write at i has done itself, in order
invoked(log, i) ==
  SelectSeq(SubSeq(log, i + 1, triggerEnd(log, i) - 1),
            LAMBDA e : e.depth = log[i].depth + 1)

\* the watchers registered for a name, in the order of registration
registered(name) ==
  SelectSeq([j \in DOMAIN dwatchers |-> j], LAMBDA j : dwatchers[j].variable = name)

\* the trigger of the store write at i: it invokes watchers only, those registered
\* for the name, each once and in the order of registration, the first of them
\* with the new value in the store; at its refresh every one of them has been
\* invoked
TriggerOrder(log, i) ==
  LET calls == invoked(log, i)
      reg == registered(log[i].name)
  IN  /\ Len(calls) <= Len(reg)
      /\ \A k \in DOMAIN calls :
           /\ calls[k].op = "watcher"
           /\ calls[k].name = log[i].name
           /\ calls[k].index = reg[k]
      /\ calls # <<>> => calls[1].value = log[i].value
      /\ triggerEnd(log, i) <= Len(log) => Len(calls) = Len(reg)

\* the step is the refresh that ends a trigger: every placeholder whose variable
\* has a value in the store shows that value
RefreshFromStore ==
  (dlog' # dlog /\ dlog'[Len(dlog')].op = "refresh") =>
    /\ dvars' = dvars
    /\ DOMAIN dtexts' = DOMAIN dtexts
    /\ \A i \in DOMAIN dtexts :
         IF MapHas(dvars, dtexts[i].name) /\ MapGet(dvars, dtexts[i].name) # Undefined
           THEN dtexts'[i].text = textOf(MapGet(dvars, dtexts[i].name))
           ELSE dtexts'[i] = dtexts[i]

\* the step is a bare assignment: the store holds the new value at once
StoreFirst ==
  (dlog' # dlog /\ \E i \in (Len(dlog) + 1)..Len(dlog') : dlog'[i].op = "set") =>
    /\ MapHas(dvars', dlog'[Len(dlog) + 1].name)
    /\ MapGet(dvars', dlog'[Len(dlog) + 1].name) = dlog'[Len(dlog) + 1].value

\* each store write of the callbacks that have returned was followed by the
\* refresh of its trigger
TriggersDone ==
  dstack = <<>> => \A i \in DOMAIN dlog : dlog[i].op = "set" => triggerEnd(dlog, i) <= Len(dlog)

\* C13: a bare assignment to x puts the new value in the store before any watcher
\* runs; its trigger then invokes every watcher registered for x exactly once, in
\* the order of registration, and no watcher registered for another name; then it
\* refreshes the placeholders from the store. (What a watcher's own assignments
\* trigger runs inside that watcher's call and is the trigger of that assignment.)
C13_Trigger ==
  /\ [](\A i \in DOMAIN dlog : dlog[i].op = "set" => TriggerOrder(dlog, i))
  /\ []TriggersDone
  /\ [][StoreFirst /\ RefreshFromStore]_vars

\* C13, for the documents whose script of generateJavaScript() has run
C13_TriggerLoaded ==
  /\ [](globalScriptParses(dast) =>
          /\ \A i \in DOMAIN dlog : dlog[i].op = "set" => TriggerOrder(dlog, i)
          /\ TriggersDone)
  /\ [][StoreFirst /\ RefreshFromStore]_vars

\* a store write with two watchers registered for its name and one for another
\* name whose trigger has come to its refresh
C13_TwoWatchers ==
  \E i \in DOMAIN dlog :
    /\ dlog[i].op = "set"
    /\ Len(registered(dlog[i].name)) >= 2
    /\ Len(registered(dlog[i].name)) < Len(dwatchers)
    /\ triggerEnd(dlog, i) <= Len(dlog)
    /\ Len(invoked(dlog, i)) = Len(registered(dlog[i].name))

\* the containers of a conditional child with an else branch: both are not
\* displayed until its script has run; from then on the one the condition chooses
\* is displayed and the other is not, the condition having the value it has in
\* the given store
ShowsBranch(s, psl_vars) ==
  LET ifEl == dnodes[nodeAt(dnodes, s.path)]
      elseEl == dnodes[nodeAt(dnodes, s.other)]
      chosen == truthy(evalJS(s.cond, psl_vars))
  IN  /\ ifEl.kind = "if_block" /\ elseEl.kind = "else_block"
      /\ IF s \in Range(dload)
           THEN ifEl.display = "none" /\ elseEl.display = "none"
           ELSE /\ ifEl.display = (IF chosen THEN "block" ELSE "none")
                /\ elseEl.display = (IF chosen THEN "none" ELSE "block")

\* the scripts of the conditional children with an else branch
elseConditions(ast) ==
  { s \in Range(documentScripts(ast)) : s.kind = "condition" /\ s.other # <<>> }

\* C14: the two containers of a conditional child with an else branch start not
\* displayed; once the document has evaluated the condition, at load, exactly one
\* of them is displayed, the if container when the condition is true of the
\* program's variables and the else container when it is not, and nothing that
\* happens later changes which.
C14_ShowsOneBranch ==
  dstat \in {"load", "ready"} =>
    \A s \in elseConditions(dast) :
      ShowsBranch(s, initialStore(dast.globalVariables, 1, <<>>))

\* C14, with the condition as the script finds it: the store is still empty when
\* the script of a conditional child runs
C14_AsEvaluated ==
  dstat \in {"load", "ready"} =>
    \A s \in elseConditions(dast) : ShowsBranch(s, <<>>)

\* a conditional child with an else branch whose script has run, in a document
\* where a callback has written the store since
C14_AfterMutation ==
  /\ dstat = "ready"
  /\ \E i \in DOMAIN dlog : dlog[i].op = "set"
  /\ \E s \in elseConditions(dast) :
       truthy(evalJS(s.cond, dvars)) # truthy(evalJS(s.cond, <<>>))

\* the innermost call is at a dotted assignment whose target is not in the registry
AtMissingTarget ==
  /\ dstat = "ready" /\ dstack # <<>>
  /\ Head(dstack).kind = "actions" /\ Head(dstack).actions # <<>>
  /\ theAction.type = "assignment"
  /\ includes(theAction.key, ".")
  /\ ~MapHas(dreg, split(theAction.key)[1])

\* the step changes no node, no page and no store entry and fires no trigger: the
\* callback goes on with its next action
NoOp ==
  /\ dnodes' = dnodes
  /\ dvars' = dvars
  /\ dtexts' = dtexts
  /\ dstack' = Continue(<<>>)

\* C15: a dotted assignment whose target name is not in the registry changes no
\* node, no store entry and no page, fires no trigger, and logs a warning.
C15_MissingWarns ==
  [][AtMissingTarget =>
       /\ NoOp
       /\ Len(dlog') = Len(dlog) + 1
       /\ dlog'[Len(dlog')].op = "warning"]_vars

\* C15, what the statement does: for a target that is not in the registry and is
\* not a page shown or hidden, nothing changes and nothing is logged.
C15_MissingSilent ==
  [][(AtMissingTarget /\ statementOf(theAction) = "element") => (NoOp /\ dlog' = dlog)]_vars

\* a dotted assignment to a name that is not in the registry has run
C15_MissingRan ==
  /\ dstat = "ready" /\ dstack # <<>>
  /\ Head(dstack).kind = "actions" /\ Head(dstack).actions = <<>>
  /\ dlog # <<>> /\ dlog[Len(dlog)].op = "event"
  /\ \E i \in DOMAIN eventCallbacks(dast) :
       /\ eventCallbacks(dast)[i].event = dlog[Len(dlog)].name
       /\ dlog[Len(dlog)].index = i
       /\ Len(eventCallbacks(dast)[i].actions) = 1
       /\ includes(eventCallbacks(dast)[i].actions[1].key, ".")
       /\ ~MapHas(dreg, split(eventCallbacks(dast)[i].actions[1].key)[1])
       /\ ~isPage(dast, split(eventCallbacks(dast)[i].actions[1].key)[1])

\* the actions are bare assignments, console calls and waits only
RECURSIVE plainActions(_)
plainActions(actions) ==
  \A i \in DOMAIN actions :
    \/ actions[i].type = "assignment" /\ ~includes(actions[i].key, ".")
    \/ actions[i].type = "functionCall" /\ actions[i].name \in builtinCalls
    \/ actions[i].type = "wait" /\ plainActions(actions[i].body)

\* what such actions do, in the order of the source: a wait, the end of its
\* delay, its body, then the actions after it
RECURSIVE sourceOrder(_)
sourceOrder(actions) ==
  IF actions = <<>> THEN <<>>
  ELSE LET a == Head(actions)
       IN  (CASE a.type = "assignment" -> <<[op |-> "set", name |-> a.key, arg |-> NullNode]>>
              [] a.type = "functionCall" ->
                   <<[op |-> "call", name |-> a.name,
                      arg |-> IF a.args # <<>> THEN a.args[1] ELSE NullNode]>>
              [] a.type = "wait" ->
                   <<[op |-> "wait", name |-> <<>>, arg |-> NullNode],
                     [op |-> "resume", name |-> <<>>, arg |-> NullNode]>>
                   \o sourceOrder(a.body)
              [] OTHER -> <<>>)
           \o sourceOrder(Tail(actions))

\* the entries of the log an invocation has written itself, not its watchers
ownEntries(log, id) ==
  SelectSeq([j \in DOMAIN log |-> j],
            LAMBDA j : /\ log[j].inv = id
                       /\ log[j].op \in {"set", "call", "wait", "resume"}
                       /\ log[j].depth <= 1)

\* the value the store holds for a name before the entry j: that of the last
\* write, or the initial one
lastWrite(log, j, name) ==
  LET writes == { i \in 1..(j - 1) : log[i].op = "set" /\ log[i].name = name }
      initial == initialStore(dast.globalVariables, 1, <<>>)
  IN  IF writes # {} THEN log[CHOOSE i \in writes : \A k \in writes : k <= i].value
      ELSE IF MapHas(initial, name) THEN MapGet(initial, name) ELSE Undefined

\* the invocation of the event at entry e has gone through its actions in the
\* order of the source, each read of a variable seeing the last write of any
\* invocation
InSourceOrder(log, e) ==
  LET expected == sourceOrder(eventCallbacks(dast)[log[e].index].actions)
      own == ownEntries(log, log[e].inv)
  IN  /\ Len(own) <= Len(expected)
      /\ \A t \in DOMAIN own :
           /\ log[own[t]].op = expected[t].op
           /\ log[own[t]].name = expected[t].name
           /\ (expected[t].op = "call" /\ expected[t].arg.type = "variable") =>
                log[own[t]].value = lastWrite(log, own[t], expected[t].arg.value)

\* between the wait of an invocation and the end of its delay nothing of that
\* invocation runs, and what runs then is the whole callbacks of other invocations:
\* the delay ends with no callback running
SuspendedAlone(log, w) ==
  LET ends == { r \in (w + 1)..Len(log) : log[r].op = "resume" /\ log[r].inv = log[w].inv }
      end == IF ends = {} THEN Len(log) + 1 ELSE Least(ends)
  IN  \A j \in (w + 1)..(end - 1) : log[j].inv # log[w].inv

\* C21: a wait suspends only its own invocation: while it is suspended the
\* callbacks of other events and other invocations of the same handler run, and
\* what they write in the store is what the suspended invocation reads when it
\* goes on; the body of the wait and the actions after it run after the delay, in
\* the order of the source, and none of them before the actions before the wait.
C21_WaitSuspendsOwn ==
  /\ [](\A e \in DOMAIN dlog :
          (dlog[e].op = "event" /\ plainActions(eventCallbacks(dast)[dlog[e].index].actions))
            => InSourceOrder(dlog, e))
  /\ [](\A w \in DOMAIN dlog : dlog[w].op = "wait" => SuspendedAlone(dlog, w))
  /\ [][(dlog' # dlog /\ dlog'[Len(dlog')].op = "resume") => dstack = <<>>]_vars

\* an invocation was suspended, another wrote the store meanwhile, and the first
\* has gone on and read what the other wrote
C21_Witness ==
  \E w, j, r, c \in DOMAIN dlog :
    /\ w < j /\ j < r /\ r < c
    /\ dlog[w].op = "wait"
    /\ dlog[j].op = "set" /\ dlog[j].inv # dlog[w].inv
    /\ dlog[r].op = "resume" /\ dlog[r].inv = dlog[w].inv
    /\ dlog[c].op = "call" /\ dlog[c].inv = dlog[w].inv /\ dlog[c].value = dlog[j].value

\* the innermost call is at a dotted assignment
AtDotted ==
  /\ dstat = "ready" /\ dstack # <<>>
  /\ Head(dstack).kind = "actions" /\ Head(dstack).actions # <<>>
  /\ theAction.type = "assignment"
  /\ includes(theAction.key, ".")

dottedTarget == split(theAction.key)[1]

dottedProp == split(theAction.key)[2]

\* the target is a page the program declares and the property is show or hide
DeclaredPageShowHide ==
  /\ MapHas(dast.pages, dottedTarget)
  /\ dottedProp \in { <<"s","h","o","w">>, <<"h","i","d","e">> }

\* the step changes page containers only, leaves the registry, the store and the
\* log as they are and goes on with the next statement
PagesOnly ==
  /\ DOMAIN dnodes' = DOMAIN dnodes
  /\ \A i \in DOMAIN dnodes : dnodes[i].kind # "page" => dnodes'[i] = dnodes[i]
  /\ dnodes' = (IF dottedProp = <<"h","i","d","e">> THEN pageHide(dnodes, dottedTarget)
                                         ELSE pageShow(dnodes, dottedTarget))
  /\ dreg' = dreg /\ dvars' = dvars /\ dlog' = dlog
  /\ dstack' = Continue(<<>>)

\* the step is that of the element branch: no page container changes, and the
\* node the registry holds under the target, if any, gets the property
ElementPath ==
  /\ DOMAIN dnodes' = DOMAIN dnodes
  /\ \A i \in DOMAIN dnodes : dnodes[i].kind = "page" => dnodes'[i] = dnodes[i]
  /\ MapHas(dreg, dottedTarget) =>
       \A i \in DOMAIN dnodes :
         dnodes[i].path = MapGet(dreg, dottedTarget) =>
           dnodes'[i].display = displayFor(dottedProp, evalJS(theAction.value, dvars),
                                           dnodes[i].display)
  /\ ~MapHas(dreg, dottedTarget) => dnodes' = dnodes

\* C22: a dotted assignment whose target is a declared page and whose property
\* is show or hide changes page containers only, touching neither the registry
\* nor any element, also with an element registered under the same name; a
\* dotted assignment with any other target or property takes the element path.
C22_PageOrElement ==
  [][AtDotted =>
       IF DeclaredPageShowHide THEN PagesOnly ELSE ElementPath]_vars

\* the half of C22 about declared pages
C22_DeclaredPage ==
  [][(AtDotted /\ DeclaredPageShowHide) => PagesOnly]_vars

\* the other half for the targets that are no property of Object.prototype
C22_OwnNames ==
  [][(AtDotted /\ ~DeclaredPageShowHide /\ dottedTarget \notin ObjectPrototypeNames)
       => ElementPath]_vars

\* `toString.hide: true` has run with a node registered under toString, no page
\* of the program having that name, and the node is displayed as before
C22_Inherited ==
  \E i \in DOMAIN eventCallbacks(dast) :
    LET actions == eventCallbacks(dast)[i].actions
    IN  /\ actions # <<>>
        /\ actions[1].type = "assignment"
        /\ actions[1].key = <<"t","o","S","t","r","i","n","g",".","h","i","d","e">>
        /\ ~MapHas(dast.pages, <<"t","o","S","t","r","i","n","g">>)
        /\ MapHas(dreg, <<"t","o","S","t","r","i","n","g">>)
        /\ devents > 0 /\ dstack = <<>> /\ dstat = "ready"
        /\ \A j \in DOMAIN dnodes :
             dnodes[j].path = MapGet(dreg, <<"t","o","S","t","r","i","n","g">>) => dnodes[j].display = ""

\* `about.hide: true` has run, about a page and the name of a registered element
C22_PageAndElement ==
  /\ MapHas(dast.pages, <<"a","b","o","u","t">>) /\ MapHas(dreg, <<"a","b","o","u","t">>)
  /\ devents > 0 /\ dstack = <<>> /\ dstat = "ready"
  /\ \E j \in DOMAIN dnodes :
       dnodes[j].kind = "page" /\ dnodes[j].name = <<"a","b","o","u","t">> /\ dnodes[j].display = "none"

(***************************************************************************)
(* The template of a for loop: generateForLoop() maps the elements of the   *)
(* loop through replaceLoopVariable() and generateElement().                *)
(***************************************************************************)
LoopPlaceholder == <<"_","_","L","O","O","P","_","V","A","R","_","_">>

\* s.replace(pattern, replacement), pattern a string: the first occurrence only
replaceFirst(s, pattern, replacement) ==
  IF includesText(s, pattern)
    THEN LET i == Least({ k \in 1..(Len(s) - Len(pattern) + 1) :
                            SubSeq(s, k, k + Len(pattern) - 1) = pattern })
         IN  SubSeq(s, 1, i - 1) \o replacement \o SubSeq(s, i + Len(pattern), Len(s))
    ELSE s

\* the property value replaceLoopVariable() stores for a property value
replaceInValue(value, varName, placeholder) ==
  IF value.type = "variable" /\ value.value = varName
    THEN [type |-> "string", value |-> placeholder]
  ELSE IF value.type = "string" /\ includesText(value.value, <<"{">> \o varName \o <<"}">>)
    THEN [type |-> "string",
          value |-> replaceFirst(value.value, <<"{">> \o varName \o <<"}">>, placeholder)]
  ELSE value

\* replaceLoopVariable(): the props of the clone, then its children; a node with
\* no props or no children (an if block has no props, a ForLoop neither) keeps
\* the rest as cloned
RECURSIVE replaceLoopVariable(_, _, _)
replaceLoopVariable(el, varName, placeholder) ==
  CASE el.type = "Element" ->
         [el EXCEPT
            !.props = [i \in DOMAIN @ |->
                         [key |-> @[i].key,
                          value |-> replaceInValue(@[i].value, varName, placeholder)]],
            !.children = [j \in DOMAIN @ |->
                            replaceLoopVariable(@[j], varName, placeholder)]]
    [] el.type = "if" ->
         [el EXCEPT
            !.children = [j \in DOMAIN @ |->
                            replaceLoopVariable(@[j], varName, placeholder)]]
    [] OTHER -> el

\* the data-var names of the placeholders in the markup generateElement() writes
\* for a node, the template of a nested for loop included
RECURSIVE spansOf(_)
spansOf(node) ==
  CASE node.type = "Element" ->
         (IF MapHas(node.props, <<"t","e","x","t">>) /\ node.name # <<"i","m","a","g","e">>
            THEN placeholderNames(valueToString(MapGet(node.props, <<"t","e","x","t">>)), 1)
            ELSE <<>>)
         \o join([j \in DOMAIN node.children |-> spansOf(node.children[j])], <<>>)
    [] node.type = "if" ->
         join([j \in DOMAIN node.children |-> spansOf(node.children[j])], <<>>)
         \o (IF hasElseBlock(node)
               THEN join([j \in DOMAIN node.elseChildren |->
                            spansOf(node.elseChildren[j])], <<>>)
               ELSE <<>>)
    [] node.type = "ForLoop" ->
         join([j \in DOMAIN node.elements |->
                 spansOf(replaceLoopVariable(node.elements[j], node.varName,
                                             LoopPlaceholder))], <<>>)
    [] OTHER -> <<>>

\* the texts of the string properties of the templates
TemplateTexts ==
  { <<"{","i","}">>, <<"{","i","}"," ","{","i","}">>, <<"a","{","i","}","b">>, <<"{"," ","i"," ","}">>, <<"{","j","}">>, <<"{","i","}","{","j","}","{","i","}">>, <<"i">>, <<"{","x","}",":"," ","{","i","}">> }

\* the elements of the loop, for a text: the loop variable is i
TemplateShapes(s) ==
  { <<"t","(","\"">> \o s \o <<"\"",")">>,
    <<"t","(",")"," ","{"," ","t","e","x","t",":"," ","\"">> \o s \o <<"\"",";"," ","}">>,
    <<"t","(","\"">> \o s \o <<"\"",")"," ","{"," ","v","a","l","u","e",":"," ","i",";"," ","}">>,
    <<"i","m","a","g","e","(","\"">> \o s \o <<"\"",")"," ","{"," ","a","l","t",":"," ","i",";"," ","w","i","d","t","h",":"," ","j",";"," ","}">>,
    <<"b","o","x","(",")"," ","{"," ","t","(","\"">> \o s \o <<"\"",")"," ","}">>,
    <<"b","o","x","(",")"," ","{"," ","r","o","w","(",")"," ","{"," ","t","(","\"">> \o s \o <<"\"",")"," ","{"," ","i","d",":"," ","i",";"," ","}"," ","}"," ","}">>,
    <<"b","o","x","(",")"," ","{"," ","i","f"," ","(","c",")"," ","{"," ","t","(","\"">> \o s \o <<"\"",")"," ","}"," ","}">>,
    <<"b","o","x","(",")"," ","{"," ","i","f"," ","(","c",")"," ","{"," ","t","(","\"","a","\"",")"," ","}"," ","e","l","s","e"," ","{"," ","t","(","\"">> \o s \o <<"\"",")"," ","}"," ","}">>,
    <<"b","o","x","(",")"," ","{"," ","f","o","r"," ","(","j"," ","i","n"," ","y","s",")"," ","{"," ","t","(","\"">> \o s \o <<"\"",")"," ","}"," ","}">>,
    <<"a","(","\"">> \o s \o <<"\"",")"," ","b","(","\"","{","i","}","\"",")">> }

TemplateCorpus ==
  UNION { { <<"h","o","m","e"," ","{"," ","f","o","r"," ","(","i"," ","i","n"," ","x","s",")"," ","{"," ">> \o shape \o <<" ","}"," ","}">> : shape \in TemplateShapes(s) }
          : s \in TemplateTexts }

\* the for loop of the page of a text of the corpus
loopOf(text) == ProgramOf(text).pages[1].value.elements[1]

TemplateInit ==
  /\ \E text \in TemplateCorpus : tloop = loopOf(text)
  /\ tnext = 0
  /\ tmodified = <<>>
  /\ tspans = <<>>
  /\ tstat = "map"
  /\ NotTplIdle

\* forLoop.elements.map(el => ...): replaceLoopVariable(), then generateElement()
TemplateMap ==
  /\ tstat = "map" /\ tnext < Len(tloop.elements)
  /\ LET modifiedEl == replaceLoopVariable(tloop.elements[tnext + 1], tloop.varName,
                                           LoopPlaceholder)
     IN  /\ tmodified' = Append(tmodified, modifiedEl)
         /\ tspans' = tspans \o spansOf(modifiedEl)
  /\ tnext' = tnext + 1
  /\ UNCHANGED <<tloop, tstat>>
  /\ UNCHANGED notTpl

\* .join(''): the template is complete
TemplateJoin ==
  /\ tstat = "map" /\ tnext = Len(tloop.elements)
  /\ tstat' = "done"
  /\ UNCHANGED <<tloop, tnext, tmodified, tspans>>
  /\ UNCHANGED notTpl

TemplateNext == TemplateMap \/ TemplateJoin

SpecTemplate == TemplateInit /\ [][TemplateNext]_vars

\* the values of the properties of a node and of all the nodes under it: children,
\* else children and the elements of nested for loops
RECURSIVE valuesUnder(_)
valuesUnder(node) ==
  CASE node.type = "Element" ->
         [i \in DOMAIN node.props |-> node.props[i].value]
         \o join([j \in DOMAIN node.children |-> valuesUnder(node.children[j])], <<>>)
    [] node.type = "if" ->
         join([j \in DOMAIN node.children |-> valuesUnder(node.children[j])], <<>>)
         \o (IF node.hasElse
               THEN join([j \in DOMAIN node.elseChildren |->
                            valuesUnder(node.elseChildren[j])], <<>>)
               ELSE <<>>)
    [] node.type = "ForLoop" ->
         join([j \in DOMAIN node.elements |-> valuesUnder(node.elements[j])], <<>>)
    [] OTHER -> <<>>

\* the values of the properties of the elements reached through children only
RECURSIVE valuesOfChildren(_)
valuesOfChildren(node) ==
  CASE node.type = "Element" ->
         [i \in DOMAIN node.props |-> node.props[i].value]
         \o join([j \in DOMAIN node.children |-> valuesOfChildren(node.children[j])], <<>>)
    [] node.type = "if" ->
         join([j \in DOMAIN node.children |-> valuesOfChildren(node.children[j])], <<>>)
    [] OTHER -> <<>>

\* the value refers to the variable: it is the variable, or a string with {name}
refersTo(value, varName) ==
  \/ value.type = "variable" /\ value.value = varName
  \/ value.type = "string" /\ includesText(value.value, <<"{">> \o varName \o <<"}">>)

\* number of {name} segments of a property value
RECURSIVE segments(_, _)
segments(text, pattern) ==
  IF includesText(text, pattern)
    THEN 1 + segments(replaceFirst(text, pattern, <<>>), pattern)
    ELSE 0

\* C23: in the template of a for loop no property of the template's elements or
\* of their descendants (under nested if/else and nested for loops too) refers
\* to the loop variable, as a bare variable or as a {var} segment of a string,
\* and no placeholder of the template is one of the loop variable.
C23_AllReplaced ==
  tstat = "done" =>
    /\ \A k \in DOMAIN tmodified :
         \A i \in DOMAIN valuesUnder(tmodified[k]) :
           ~refersTo(valuesUnder(tmodified[k])[i], tloop.varName)
    /\ \A s \in DOMAIN tspans : tspans[s] # tloop.varName

\* what replaceLoopVariable() does replace: on the elements reached through
\* children, a property that is the loop variable becomes the placeholder and a
\* string loses the first of its {var} segments
C23_FirstReplaced ==
  \A k \in DOMAIN tmodified :
    LET before == valuesOfChildren(tloop.elements[k])
        after == valuesOfChildren(tmodified[k])
        pattern == <<"{">> \o tloop.varName \o <<"}">>
    IN  /\ Len(after) = Len(before)
        /\ \A i \in DOMAIN before :
             CASE before[i].type = "variable" /\ before[i].value = tloop.varName ->
                    after[i] = [type |-> "string", value |-> LoopPlaceholder]
               [] before[i].type = "string" /\ segments(before[i].value, pattern) > 0 ->
                    /\ after[i].type = "string"
                    /\ segments(after[i].value, pattern) = segments(before[i].value, pattern) - 1
                    /\ includesText(after[i].value, LoopPlaceholder)
               [] OTHER -> after[i] = before[i]

\* the template of `for (i in xs) { t("{i} {i}") }` is complete and has a
\* placeholder of i
C23_SecondRemains ==
  /\ tstat = "done"
  /\ Len(tloop.elements) = 1
  /\ tloop.elements[1].type = "Element"
  /\ tloop.elements[1].children = <<>>
  /\ MapHas(tloop.elements[1].props, <<"t","e","x","t">>)
  /\ MapGet(tloop.elements[1].props, <<"t","e","x","t">>) = [type |-> "string", value |-> <<"{","i","}"," ","{","i","}">>]
  /\ tspans = << <<"i">> >>

\* the tokens are those of a page, declared once, that begins with an element
\* call, name(
CallTokens ==
  /\ Len(ptokens) >= 6
  /\ ptokens[1] = Tok("IDENTIFIER", <<"h","o","m","e">>)
  /\ \A i \in 2..Len(ptokens) : ptokens[i].value # <<"h","o","m","e">>
  /\ ptokens[2] = Tok("SYMBOL", <<"{">>)
  /\ ptokens[3].type = "IDENTIFIER"
  /\ ptokens[3].value \notin { <<"f","o","r">>, <<"o","n","K","e","y">> }
  /\ ptokens[4] = Tok("SYMBOL", <<"(">>)

DirectKeys == { <<"s","r","c">>, <<"p","l","a","c","e","h","o","l","d","e","r">>, <<"t","e","x","t">> }

\* no property of the body of the element is one of the three
NoDirectKeyLater ==
  \A i \in 5..Len(ptokens) :
    ~(ptokens[i].type = "IDENTIFIER" /\ ptokens[i].value \in DirectKeys)

\* the property the claim gives the name
directKeyOf(name) ==
  IF name = <<"i","m","a","g","e">> THEN <<"s","r","c">>
  ELSE IF name = <<"i","n","p","u","t">> THEN <<"p","l","a","c","e","h","o","l","d","e","r">>
  ELSE <<"t","e","x","t">>

\* C24: a direct string argument of an element call binds to exactly one of
\* src, placeholder and text: src for image, placeholder for input, text for
\* every other name, and its value is the argument; an element called with
\* empty parentheses gets none of the three from the call.
C24_DirectArgument ==
  (pstat = "returned" /\ CallTokens /\ NoDirectKeyLater) =>
    LET el == past.pages[1].value.elements[1]
        bound == { k \in Range(MapKeys(el.props)) : k \in DirectKeys }
    IN  /\ el.type = "Element" /\ el.name = ptokens[3].value
        /\ ptokens[5].type = "STRING" =>
             /\ bound = { directKeyOf(ptokens[3].value) }
             /\ ptokens[6] = Tok("SYMBOL", <<")">>) =>
                  MapGet(el.props, directKeyOf(ptokens[3].value))
                    = [type |-> "string", value |-> ptokens[5].value]
        /\ ptokens[5] = Tok("SYMBOL", <<")">>) => bound = {}

\* parse() has returned the page of `home { image("a") { color: red; alt: "c"; } }`
C24_ImageParsed ==
  /\ pstat = "returned" /\ CallTokens /\ NoDirectKeyLater
  /\ ptokens[3].value = <<"i","m","a","g","e">>
  /\ ptokens[5] = Tok("STRING", <<"a">>)
  /\ ptokens[6] = Tok("SYMBOL", <<")">>)
  /\ Len(past.pages[1].value.elements[1].props) = 3
  /\ MapHas(past.pages[1].value.elements[1].props, <<"s","r","c">>)

\* the names whose trigger a list of actions fires: the keys of its assignments,
\* those of the bodies of its ifs and waits included
RECURSIVE assignedIn(_)
assignedIn(actions) ==
  IF actions = <<>> THEN {}
  ELSE LET a == Head(actions)
       IN  (CASE a.type = "assignment" ->
                   { IF includes(a.key, ".") THEN split(a.key)[1] ELSE a.key }
              [] a.type = "if" -> assignedIn(a.body) \cup assignedIn(a.elseBody)
              [] a.type = "wait" -> assignedIn(a.body)
              [] OTHER -> {})
           \cup assignedIn(Tail(actions))

\* the names whose watchers the watchers of a name assign
watchedFrom(ast, names) ==
  UNION { assignedIn(ast.watchers[j].actions) :
            j \in { k \in DOMAIN ast.watchers :
                      valueToString(ast.watchers[k].variable) \in names } }

\* the names reached from a name in at most n steps, n > 0
RECURSIVE reachedFrom(_, _, _)
reachedFrom(ast, names, n) ==
  IF n = 0 THEN {}
  ELSE watchedFrom(ast, names) \cup reachedFrom(ast, watchedFrom(ast, names), n - 1)

\* some watcher assigns, itself or through other watchers, the variable it watches
WatchersCyclic(ast) ==
  \E j \in DOMAIN ast.watchers :
    valueToString(ast.watchers[j].variable)
      \in reachedFrom(ast, { valueToString(ast.watchers[j].variable) }, Len(ast.watchers))

\* psl_triggerWatchers() is in progress
TriggerInProgress == \E k \in DOMAIN dstack : dstack[k].kind = "trigger"

\* C25: the trigger fired after a mutation always completes, whatever the
\* watchers, a watcher that assigns the variable it watches and two watchers that
\* assign each other's variables included: the chain of watcher calls is finite,
\* the call stack is never exhausted, and control returns to the callback that
\* made the assignment.
C25_TriggerCompletes ==
  /\ [](\A i \in DOMAIN dlog : dlog[i].op # "RangeError")
  /\ [][TriggerInProgress => dstack' # <<>>]_vars

\* the same for the programs whose watchers assign no variable that leads back
\* to them
C25_AcyclicCompletes ==
  /\ [](WatchersCyclic(dast) \/ \A i \in DOMAIN dlog : dlog[i].op # "RangeError")
  /\ [][(TriggerInProgress /\ ~WatchersCyclic(dast)) => dstack' # <<>>]_vars

\* the click on b of `x = 0; watch(x) { x: 1; } home { b() { onClick { x: 10; } } }`
\* has ended with the RangeError
C25_Overflowed ==
  /\ Len(dast.watchers) = 1
  /\ dstack = <<>> /\ dlog # <<>>
  /\ dlog[Len(dlog)].op = "RangeError"

\* two watchers that assign each other's variables have ended with the RangeError
C25_MutualOverflowed ==
  /\ Len(dast.watchers) = 2
  /\ dstack = <<>> /\ dlog # <<>>
  /\ dlog[Len(dlog)].op = "RangeError"

\* a chain of two watchers has ended and the handler has gone on
C25_ChainReturned ==
  /\ ~WatchersCyclic(dast)
  /\ \E i, j, k \in DOMAIN dlog :
       /\ i < j /\ j < k
       /\ dlog[i].op = "watcher" /\ dlog[j].op = "watcher" /\ dlog[j].depth > dlog[i].depth
       /\ dlog[k].op = "refresh" /\ dlog[k].depth = 2
  /\ dstack = <<>>

\* the step fires the trigger of a name: psl_triggerWatchers(name) is the
\* innermost call after it
FiresTrigger(name) ==
  /\ dstack' # <<>>
  /\ Head(dstack').kind = "trigger" /\ Head(dstack').name = name /\ Head(dstack').next = 1
  /\ Len(dstack') = Len(dstack) + 1

\* C26: an assignment `x = v` in the body of a user function writes the store
\* and fires the trigger of x, as the assignment action `x: v` of a handler
\* does: the watchers of x are called and the placeholders are refreshed.
C26_FunctionAssignmentTriggers ==
  [][(AtFunctionStatement("assignment") /\ ~includes(theAction.varName, "."))
       => /\ dvars' = MapPut(dvars, theAction.varName, evalJS(theAction.value, dvars))
          /\ FiresTrigger(theAction.varName)]_vars

\* the assignment action of a callback does so when psl_triggerWatchers is defined
C26_ActionAssignmentTriggers ==
  [][(AtStatement("variable") /\ globalScriptParses(dast))
       => /\ dvars' = MapPut(dvars, theAction.key, evalJS(theAction.value, dvars))
          /\ FiresTrigger(theAction.key)]_vars

\* the assignment of a function writes the store and nothing else: no call is
\* made, and the placeholders stay as they are
C26_FunctionAssignmentStores ==
  [][AtFunctionStatement("assignment")
       => /\ dstack' = Continue(<<>>)
          /\ dtexts' = dtexts]_vars

\* setX() of `x = 1; setX() { x = 2; ... } watch(x) { log("w"); } ...` has run from
\* a click and the callback has ended: x is 2 in the store, the placeholder of x
\* shows 1 and the watcher of x has not been called
C26_Stale ==
  /\ dstat = "ready" /\ dstack = <<>>
  /\ MapHas(dvars, <<"x">>)
  /\ MapGet(dvars, <<"x">>) = JSValue("number", FALSE, <<"2">>)
  /\ \E i \in DOMAIN dtexts : dtexts[i].name = <<"x">> /\ dtexts[i].text = <<"1">>
  /\ \E i \in DOMAIN dlog : dlog[i].op = "store" /\ dlog[i].name = <<"x">>
  /\ \A i \in DOMAIN dlog : dlog[i].op # "watcher"

(***************************************************************************)
(* The display of a page container: the rules of the style sheet of         *)
(* generateHTML(), those of generateCSS() after them, and the inline style   *)
(* the page statements set.                                                 *)
(***************************************************************************)
\* the rules for page containers in the order of the style element; a selector
\* with the class counts an attribute and a class, one without counts an attribute
PageStyleRules ==
  << [selector |-> "[data-page]", class |-> FALSE, specificity |-> 10, display |-> "none"],
     [selector |-> "[data-page].active", class |-> TRUE, specificity |-> 20, display |-> "block"],
     [selector |-> "[data-page]", class |-> FALSE, specificity |-> 10, display |-> "flex"] >>

\* the declaration of the cascade for a container: of the rules that match, the
\* one of the highest specificity, the last of these
cascadeDisplay(rules, page) ==
  LET matching == { i \in DOMAIN rules : rules[i].class => page.active }
      winner == CHOOSE i \in matching :
                  \A j \in matching :
                    \/ rules[j].specificity < rules[i].specificity
                    \/ rules[j].specificity = rules[i].specificity /\ j <= i
  IN  rules[winner].display

\* the computed display: the inline style of the element wins over the style sheet
computedDisplay(page) ==
  IF page.display # "" THEN page.display ELSE cascadeDisplay(PageStyleRules, page)

displayed(page) == computedDisplay(page) # "none"

\* C27: at every moment a page container of the document is displayed if and
\* only if it carries the active marker, so that at most one page is visible:
\* at load under the style rules, and after any page.show, page.hide and
\* showPage.
C27_DisplayedIffActive ==
  rstat = "run" =>
    /\ \A i \in DOMAIN rdoc : displayed(rdoc[i]) <=> rdoc[i].active
    /\ Cardinality({ i \in DOMAIN rdoc : displayed(rdoc[i]) }) <= 1

\* what holds: a container that has been neither shown nor hidden by a page
\* statement is displayed, active or not, and one that has is displayed as
\* the last of these statements on it left it
C27_AsStyled ==
  rstat = "run" =>
    \A i \in DOMAIN rdoc :
      displayed(rdoc[i]) <=> rdoc[i].display # "none"

\* the document of two pages is loaded, no statement has run and both pages are
\* displayed
C27_BothAtLoad ==
  /\ rstat = "run" /\ rlast = ""
  /\ Len(rdoc) = 2
  /\ rdoc[1].active /\ ~rdoc[2].active
  /\ computedDisplay(rdoc[1]) = "block" /\ computedDisplay(rdoc[2]) = "flex"

\* a page is active and not displayed: hidden by page.hide, then activated by
\* showPage
C27_ActiveHidden ==
  /\ rstat = "run"
  /\ \E i \in DOMAIN rdoc : rdoc[i].active /\ ~displayed(rdoc[i])

\* el.props without a key
withoutKey(props, key) == SelectSeq(props, LAMBDA entry : entry.key # key)

\* the declarations of the style attribute for el.props: those of each entry in
\* turn
allStyles(props, pagePadding) ==
  join([i \in DOMAIN props |->
          styles(props[i].key, valueToString(props[i].value), props, pagePadding)], <<>>)

\* the property is given with the value false
IsFalse(key) ==
  MapHas(sprops, key) /\ MapGet(sprops, key) = [type |-> "boolean", value |-> FALSE]

\* the wrapper and the declarations are those of the element without the key
AsWithout(key) ==
  /\ sstyles = allStyles(withoutKey(sprops, key), spadding)
  /\ swrapper = wrapperStyles(positioning(withoutKey(sprops, key), 1, noPositioning))

\* C28: the boolean positioning properties take effect only when true: an
\* element with `fixed: false` and a base position is positioned absolutely, an
\* element with `center: false` gets neither the centering wrapper nor the
\* centered offsets, and the output is that of the element without the property.
C28_FalseIsAbsent ==
  sstat = "done" =>
    /\ (IsFalse(<<"f","i","x","e","d">>) /\ MapHas(sprops, <<"b","a","s","e">>)) =>
         /\ \E i \in DOMAIN sstyles : sstyles[i] = Decl(<<"p","o","s","i","t","i","o","n">>, <<"a","b","s","o","l","u","t","e">>)
         /\ \A i \in DOMAIN sstyles : sstyles[i] # Decl(<<"p","o","s","i","t","i","o","n">>, <<"f","i","x","e","d">>)
    /\ IsFalse(<<"c","e","n","t","e","r">>) =>
         /\ \A i \in DOMAIN swrapper : swrapper[i] # Decl(<<"j","u","s","t","i","f","y","-","c","o","n","t","e","n","t">>, <<"c","e","n","t","e","r">>)
         /\ \A i \in DOMAIN sstyles : sstyles[i].property # <<"t","r","a","n","s","f","o","r","m">>
    /\ \A key \in { <<"f","i","x","e","d">>, <<"c","e","n","t","e","r">> } : IsFalse(key) => AsWithout(key)

\* the same for the value true: the property given as true has the effect the
\* claim denies to false, and the declarations are those of all the entries
C28_TrueTakesEffect ==
  sstat = "done" =>
    /\ sstyles = allStyles(sprops, spadding)
    /\ (MapHas(sprops, <<"f","i","x","e","d">>) /\ MapGet(sprops, <<"f","i","x","e","d">>) = True
          /\ MapHas(sprops, <<"b","a","s","e">>)) =>
         \E i \in DOMAIN sstyles : sstyles[i] = Decl(<<"p","o","s","i","t","i","o","n">>, <<"f","i","x","e","d">>)
    /\ (~MapHas(sprops, <<"f","i","x","e","d">>) /\ MapHas(sprops, <<"b","a","s","e">>)) =>
         \E i \in DOMAIN sstyles : sstyles[i] = Decl(<<"p","o","s","i","t","i","o","n">>, <<"a","b","s","o","l","u","t","e">>)

\* the element of `base: bottom; fixed: false;` is written with position: fixed
C28_FalseFixed ==
  /\ sstat = "done"
  /\ ssrc = <<"b","a","s","e",":"," ","b","o","t","t","o","m",";"," ","f","i","x","e","d",":"," ","f","a","l","s","e",";">>
  /\ sstyles # <<>>
  /\ sstyles[1] = Decl(<<"p","o","s","i","t","i","o","n">>, <<"f","i","x","e","d">>)

\* the element of `center: false;` is written in the centering wrapper
C28_FalseCentered ==
  /\ sstat = "done"
  /\ ssrc = <<"c","e","n","t","e","r",":"," ","f","a","l","s","e",";">>
  /\ swrapper = <<Decl(<<"d","i","s","p","l","a","y">>, <<"f","l","e","x">>), Decl(<<"j","u","s","t","i","f","y","-","c","o","n","t","e","n","t">>, <<"c","e","n","t","e","r">>),
                  Decl(<<"a","l","i","g","n","-","i","t","e","m","s">>, <<"c","e","n","t","e","r">>)>>

(***************************************************************************)
(* The emission of values: valueToJSString() on the value nodes the parser  *)
(* makes of string and number tokens, and what the JavaScript engine makes   *)
(* of the text.                                                             *)
(***************************************************************************)
\* value.value.replace(/"/g, '\\"')
RECURSIVE escapeQuotes(_)
escapeQuotes(s) ==
  IF s = <<>> THEN <<>>
  ELSE (IF Head(s) = "\"" THEN <<"\\", "\"">> ELSE <<Head(s)>>) \o escapeQuotes(Tail(s))

\* (window.psl_elements.object ? window.psl_elements.object.member : fallback)
elementRead(object, member, fallback) ==
  <<"(","w","i","n","d","o","w",".","p","s","l","_","e","l","e","m","e","n","t","s",".">> \o object \o <<" ","?"," ","w","i","n","d","o","w",".","p","s","l","_","e","l","e","m","e","n","t","s",".">> \o object \o <<".">>
    \o member \o <<" ",":"," ">> \o fallback \o <<")">>

RECURSIVE valueToJSString(_)
valueToJSString(value) ==
  CASE value = NullNode -> <<"n","u","l","l">>
    [] value.type = "string" -> <<"\"">> \o escapeQuotes(value.value) \o <<"\"">>
    [] value.type = "number" -> value.value
    [] value.type = "boolean" -> (IF value.value THEN <<"t","r","u","e">> ELSE <<"f","a","l","s","e">>)
    [] value.type = "variable" -> <<"w","i","n","d","o","w",".","p","s","l","_","v","a","r","s",".">> \o value.value
    [] value.type = "array" ->
         <<"[">> \o join([i \in DOMAIN value.elements |->
                           valueToJSString(value.elements[i])], <<","," ">>) \o <<"]">>
    [] value.type = "object" ->
         <<"{">> \o join([i \in DOMAIN value.properties |->
                           value.properties[i].key \o <<":"," ">>
                             \o valueToJSString(value.properties[i].value)], <<","," ">>)
           \o <<"}">>
    [] value.type = "dotNotation" ->
         LET prop == value.property
         IN  IF prop = <<"t","e","x","t">> THEN elementRead(value.object, <<"t","e","x","t","C","o","n","t","e","n","t">>, <<"'","'">>)
             ELSE IF prop \in { <<"v","a","l","u","e">>, <<"s","r","c">> } THEN elementRead(value.object, prop, <<"'","'">>)
             ELSE IF prop = <<"b","g">>
               THEN elementRead(value.object, <<"s","t","y","l","e",".","b","a","c","k","g","r","o","u","n","d","C","o","l","o","r">>, <<"'","'">>)
             ELSE IF prop = <<"c","o","l","o","r">> THEN elementRead(value.object, <<"s","t","y","l","e",".","c","o","l","o","r">>, <<"'","'">>)
             ELSE IF prop \in { <<"s","i","z","e">>, <<"w","i","d","t","h">>, <<"h","e","i","g","h","t">> }
               THEN <<"(","w","i","n","d","o","w",".","p","s","l","_","e","l","e","m","e","n","t","s",".">> \o value.object \o <<" ","?"," ","p","a","r","s","e","I","n","t","(","w","i","n","d","o","w",".","p","s","l","_","e","l","e","m","e","n","t","s",".">>
                    \o value.object \o <<".","s","t","y","l","e",".">>
                    \o (IF prop = <<"s","i","z","e">> THEN <<"f","o","n","t","S","i","z","e">> ELSE prop) \o <<")"," ",":"," ","0",")">>
             ELSE elementRead(value.object, <<"g","e","t","A","t","t","r","i","b","u","t","e","(","'","d","a","t","a","-">> \o prop \o <<"'",")">>, <<"'","'">>)
    [] value.type = "binaryExpression" ->
         <<"(">> \o valueToJSString(value.left) \o <<" ">>
           \o (IF value.operator = <<"=","=">> THEN <<"=","=","=">> ELSE value.operator)
           \o <<" ">> \o valueToJSString(value.right) \o <<")">>
    [] value.type = "ternary" ->
         <<"(">> \o valueToJSString(value.condition) \o <<" ","?"," ">>
           \o valueToJSString(value.trueExpr) \o <<" ",":"," ">>
           \o valueToJSString(value.falseExpr) \o <<")">>
    [] OTHER -> <<"n","u","l","l">>

\* what the engine reads of a string literal from the character after the opening
\* quote: the value and the characters left after the closing quote, or an error
\* (a line break in the literal, or no closing quote). Of the escapes, \n and
\* \t are the line break and the tab, a backslash before a line break
\* continues the line, and a backslash before a quote, a backslash or a letter
\* that begins no escape gives that character.
RECURSIVE jsStringBody(_, _)
jsStringBody(text, value) ==
  IF text = <<>> THEN [ok |-> FALSE, value |-> value, rest |-> <<>>]
  ELSE IF Head(text) = "\"" THEN [ok |-> TRUE, value |-> value, rest |-> Tail(text)]
  ELSE IF Head(text) \in {"\n", "\r"} THEN [ok |-> FALSE, value |-> value, rest |-> text]
  ELSE IF Head(text) = "\\"
    THEN IF Len(text) < 2 THEN [ok |-> FALSE, value |-> value, rest |-> <<>>]
         ELSE jsStringBody(SubSeq(text, 3, Len(text)),
                           value \o (CASE text[2] = "n" -> <<"\n">>
                                       [] text[2] = "t" -> <<"\t">>
                                       [] text[2] = "\n" -> <<>>
                                       [] OTHER -> <<text[2]>>))
  ELSE jsStringBody(Tail(text), Append(value, Head(text)))

SyntaxError == [kind |-> "SyntaxError", value |-> <<>>]

\* the text as an expression of JavaScript: a string literal, a number, or
\* neither
jsLiteral(text) ==
  IF text # <<>> /\ Head(text) = "\""
    THEN LET r == jsStringBody(Tail(text), <<>>)
         IN  IF r.ok /\ r.rest = <<>> THEN [kind |-> "string", value |-> r.value]
             ELSE SyntaxError
  ELSE IF jsNumber(text) /\ \E i \in DOMAIN text : text[i] \in Digits
    THEN [kind |-> "number", value |-> text]
  ELSE SyntaxError

\* the characters of the bodies of the string literals of the source, and their
\* greatest number
StringAlphabet == {"a", "n", "\"", "\\", "\n"}

MaxString == 3

\* the source texts that are one string token
StringTexts ==
  { text \in { <<"\"">> \o body \o <<"\"">> : body \in Texts(StringAlphabet, MaxString) } :
      LET toks == tokenize(text) IN Len(toks) = 2 /\ toks[1].type = "STRING" }

\* the characters of the durations, and their greatest number
DurationAlphabet == {"1", "5", ".", "s", "m", "%"}

MaxDuration == 3

\* the source texts that are one number token
DurationTexts ==
  { text \in Texts(DurationAlphabet, MaxDuration) :
      LET toks == tokenize(text) IN Len(toks) = 2 /\ toks[1].type = "NUMBER" }

ValueInit ==
  /\ \/ \E text \in StringTexts :
          /\ vvalue = ProgramOf(<<"x"," ","="," ">> \o text \o <<";">>).globalVariables[1].value
          /\ vuse = "value"
     \/ \E text \in DurationTexts :
          /\ vvalue = ProgramOf(<<"e","v","e","r","y","(">> \o text \o <<")"," ","{"," ","}">>).intervals[1].duration
          /\ vuse = "every"
     \/ \E text \in DurationTexts :
          /\ vvalue = ProgramOf(<<"h","o","m","e"," ","{"," ","b","(",")"," ","{"," ","o","n","C","l","i","c","k"," ","{"," ","w","a","i","t","(">> \o text \o <<")",";"," ","}"," ","}"," ","}">>)
                        .pages[1].value.elements[1].handlers[1].actions[1].duration
          /\ vuse = "wait"
  /\ vtext = <<>>
  /\ vresult = <<>>
  /\ vstat = "new"
  /\ NotValIdle

\* this.valueToJSString(value)
ValueToJS ==
  /\ vstat = "new"
  /\ vtext' = valueToJSString(vvalue)
  /\ vstat' = "emitted"
  /\ UNCHANGED <<vvalue, vuse, vresult>>
  /\ UNCHANGED notVal

\* the engine reads the text where the script has it
ValueEvaluate ==
  /\ vstat = "emitted"
  /\ vresult' = jsLiteral(vtext)
  /\ vstat' = "evaluated"
  /\ UNCHANGED <<vvalue, vuse, vtext>>
  /\ UNCHANGED notVal

ValueNext == ValueToJS \/ ValueEvaluate

SpecValue == ValueInit /\ [][ValueNext]_vars

\* C29: for every string token the lexer makes, valueToJSString() gives one
\* well-formed string literal of JavaScript, and that literal evaluates to the
\* value of the token: a double quote, a backslash, a line break in the value
\* included.
C29_StringRoundTrip ==
  (vstat = "evaluated" /\ vvalue.type = "string") =>
    vresult = [kind |-> "string", value |-> vvalue.value]

\* the same for the values with no backslash and no line break
C29_PlainRoundTrip ==
  (vstat = "evaluated" /\ vvalue.type = "string"
     /\ \A i \in DOMAIN vvalue.value : vvalue.value[i] \notin {"\\", "\n"}) =>
    vresult = [kind |-> "string", value |-> vvalue.value]

\* the text for the value of the source text "a\nb", a line break between a and
\* b, is no literal
C29_LineBreak ==
  /\ vstat = "evaluated"
  /\ vvalue = [type |-> "string", value |-> <<"a", "\n", "a">>]
  /\ vtext = <<"\"", "a", "\n", "a", "\"">>
  /\ vresult = SyntaxError

\* a value with a quote has been emitted and read back
C29_Quote ==
  /\ vstat = "evaluated"
  /\ vvalue = [type |-> "string", value |-> <<"a", "\"">>]
  /\ vtext = <<"\"", "a", "\\", "\"", "\"">>
  /\ vresult = [kind |-> "string", value |-> <<"a", "\"">>]

\* the text for the value of one backslash and n is a literal of another value
C29_Backslash ==
  /\ vstat = "evaluated"
  /\ vvalue = [type |-> "string", value |-> <<"\\", "n">>]
  /\ vresult = [kind |-> "string", value |-> <<"\n">>]

\* the value is the duration of a timer and its text is in the script
DurationEmitted == vuse \in {"every", "wait"} /\ vstat \in {"emitted", "evaluated"}

\* C30: a number token that is the duration of wait(...) or every(...), with a
\* unit or without, is written into the timer call as digits with at most one
\* decimal point: no unit reaches the script.
C30_PlainDuration ==
  DurationEmitted =>
    /\ jsNumber(vtext)
    /\ \E i \in DOMAIN vtext : vtext[i] \in Digits
    /\ vstat = "evaluated" => vresult.kind = "number"

\* the duration is written as the text of the token, whatever the token
C30_AsTheToken ==
  DurationEmitted => vvalue.type = "number" /\ vtext = vvalue.value

\* a token of digits with at most one point is a number of the script
C30_NoUnit ==
  (DurationEmitted /\ vstat = "evaluated" /\ jsNumber(vvalue.value)) =>
    vresult = [kind |-> "number", value |-> vvalue.value]

\* the unit s of every(1s) is in the script, which is no script then
C30_Seconds ==
  /\ vuse = "every"
  /\ vstat = "evaluated"
  /\ vtext = <<"1", "s">>
  /\ vresult = SyntaxError

\* the unit ms of wait(5ms) likewise
C30_Milliseconds ==
  /\ vuse = "wait"
  /\ vstat = "evaluated"
  /\ vtext = <<"5", "m", "s">>
  /\ vresult = SyntaxError

\* a duration with no unit is the number it reads
C30_Bare ==
  /\ vuse = "wait"
  /\ vstat = "evaluated"
  /\ vtext = <<"1", "5">>
  /\ vresult = [kind |-> "number", value |-> <<"1", "5">>]

====
